---- MODULE Spec2Model ----
(***************************************************************************)
(* Model of the RollOffIno roll-off roof driver (rolloffrpi.cpp/.h), the   *)
(* Raspberry Pi GPIO build.  One handler of the driver is one action; the  *)
(* handlers are written as operators that transform a record of the        *)
(* driver's fields, in the order of the statements of the C++ code.        *)
(*                                                                         *)
(* Time is counted in milliseconds and advances in steps of one active     *)
(* poll period.  The readings of the input pins and the results of the     *)
(* pigpio calls are inputs of the handler that makes the call.  The driver *)
(* runs with isSimulation() false (the GPIO pins are used).                *)
(***************************************************************************)
EXTENDS Integers, Sequences, FiniteSets, TLC

\* ---------------------------------------------------------------- constants
INITIAL_TIMING == 500
INACTIVE_TIMING == 1000
ACTIVE_POLL_MS == 500
MAX_CNTRL_COM_ERR == 10

MAX_OUT_DEFS == 5
MAX_OUT_OPS == 6
MAX_OUT_ACTIVE_LIMIT == 5
MAX_INP_DEFS == 4
MAX_INP_OPS == 5

ROOF_OPENED_SWITCH == "OPENED"
ROOF_CLOSED_SWITCH == "CLOSED"
ROOF_LOCKED_SWITCH == "LOCKED"
ROOF_AUX_SWITCH == "AUXSTATE"
ROOF_OPEN_RELAY == "OPEN"
ROOF_CLOSE_RELAY == "CLOSE"
ROOF_ABORT_RELAY == "ABORT"
ROOF_LOCK_RELAY == "LOCK"
ROOF_AUX_RELAY == "AUXSET"

inpOps == <<ROOF_OPENED_SWITCH, ROOF_CLOSED_SWITCH, ROOF_LOCKED_SWITCH, ROOF_AUX_SWITCH, "Unused">>
outOps == <<ROOF_OPEN_RELAY, ROOF_CLOSE_RELAY, ROOF_ABORT_RELAY, ROOF_LOCK_RELAY, ROOF_AUX_RELAY, "Unused">>
activeLimitMilli == <<100, 250, 500, 750, 0>>

\* enum { EXPIRED_CLEAR, EXPIRED_OPEN, EXPIRED_CLOSE }
EXPIRED_CLEAR == 0
EXPIRED_OPEN == 1
EXPIRED_CLOSE == 2

\* The limits of a GPIO pin number property (IUFillNumber min, max) and the
\* value it is filled with.
GPIO_PIN_MIN == 2
GPIO_PIN_MAX == 27
GPIO_PIN_INITIAL == 0

\* The limits of the ROOF_TIMEOUT number, in seconds.
ROOF_TIMEOUT_MIN == 1
ROOF_TIMEOUT_MAX == 300

\* The thresholds of the indeterminate-roof message throttle.
LIMIT_MSG_WARN_MAX == 10
LIMIT_MSG_ERROR_AT == 11

\* pigpio results: 0 is success, a level is 0 or 1, an error is negative.
PI_BAD_GPIO == 0 - 3
PI_OTHER_ERROR == 0 - 41

\* ------------------------------------------------------------------- bounds
\* The largest motion timeout (seconds) the client sets.
MaxTimeout == 1
\* How many poll periods a due timer may be served late (the control loop
\* is stalled by a pulse or by another handler).
MaxLate == 0
\* How many poll timers may be pending at once.
MaxTimers == 2

VARIABLES
    \* the GPIO definition properties (PinRegistry)
    outFunctionS,        \* [slot -> index into outOps of the switch that is ON, 0 if none]
    outPinNumberN,       \* [slot -> pin number]
    outActivateWhenS,    \* [slot -> "High" | "Low" | "None"]
    outActiveLimitS,     \* [slot -> index into activeLimitMilli of the ON switch, 0 if none]
    inpFunctionS,        \* [slot -> index into inpOps, 0 if none]
    inpPinNumberN,
    inpActivateWhenS,
    RoofTimeoutN,        \* RoofTimeoutN[0].value
    saved,               \* the configuration file: [property name -> values saved]
    \* RollOffIno fields
    contactEstablished,
    roofOpening,
    roofClosing,
    MotionRequest,
    MotionStart,         \* milliseconds elapsed since MotionStart was stamped
    fullyOpenedLimitSwitch,
    fullyClosedLimitSwitch,
    roofLockedSwitch,
    roofAuxiliarySwitch,
    roofTimedOut,
    limitMsg,
    communicationErrors,
    RoofStatusL,         \* [light -> IPState]
    RoofStatusLP,        \* RoofStatusLP.s, the summary state
    LockS,               \* the Lock switch that is ON
    AuxS,                \* the Aux switch that is ON
    \* INDI::Dome / DefaultDevice state the driver reads and writes
    running,             \* the driver process is running
    isConnected,
    DomeMotionSP,        \* DomeMotionSP.s
    DomeMotionS,         \* the motion switch that is ON: "DOME_CW", "DOME_CCW", "NONE"
    m_DomeState,
    timers,              \* the pending SetTimer timers: ms left, ascending
    \* the GPIO pins
    pinLevel,            \* [pin -> last level written]
    pinMode,             \* [pin -> "PI_OUTPUT" | "PI_INPUT" | "unset"]
    \* what the last handler did
    op,                  \* [name, dir, rc, actuate, lock, ret, status, fault, mount]:
                         \* the button it pushed, the lock state pushRoofButton read,
                         \* what pushRoofButton returned, whether it ran
                         \* updateRoofStatus, the pins and writes at its first
                         \* log call for a failed gpio_read, if it made one, and
                         \* what INDI::Dome::isLocked() held for a move request
    writes,              \* the gpio_write calls it made: <<[gpio, level]>>
    log,                 \* the messages it logged
    snap,                \* the last updateRoofStatus: its locals, whether a motion was
                         \* in progress when it began (moving) and when it ended
                         \* (progress), and how many computations in a row, this one
                         \* included, found a stationary roof neither opened nor closed
    sinceAccept          \* ms since the last move request was accepted, -1 when
                         \* none was or an abort was requested after it

cfgVars == <<outFunctionS, outPinNumberN, outActivateWhenS, outActiveLimitS,
             inpFunctionS, inpPinNumberN, inpActivateWhenS, RoofTimeoutN, saved>>

drvVars == <<contactEstablished, roofOpening, roofClosing, MotionRequest, MotionStart,
             fullyOpenedLimitSwitch, fullyClosedLimitSwitch, roofLockedSwitch,
             roofAuxiliarySwitch, roofTimedOut, limitMsg, communicationErrors,
             RoofStatusL, RoofStatusLP, LockS, AuxS, running, isConnected, DomeMotionSP,
             DomeMotionS, m_DomeState, timers, pinLevel, pinMode, op, writes, log,
             snap, sinceAccept>>

vars == <<cfgVars, drvVars>>

OutSlots == 1..MAX_OUT_DEFS
InpSlots == 1..MAX_INP_DEFS
Levels == {0, 1}
Lights == {"ROOF_STATUS_OPENED", "ROOF_STATUS_CLOSED", "ROOF_STATUS_MOVING",
           "ROOF_STATUS_LOCKED", "ROOF_STATUS_AUXSTATE"}

Min(s) == CHOOSE x \in s : \A y \in s : x <= y

Count(seq, m) == Cardinality({k \in DOMAIN seq : seq[k] = m})

\* The clocks stop counting once they are past every timeout the model uses.
ElapsedCap == (MaxTimeout + 1) * 1000

\* The driver's fields as one record; a handler maps such a record to the
\* record after it.
S == [contactEstablished |-> contactEstablished, roofOpening |-> roofOpening,
      roofClosing |-> roofClosing, MotionRequest |-> MotionRequest,
      MotionStart |-> MotionStart,
      fullyOpenedLimitSwitch |-> fullyOpenedLimitSwitch,
      fullyClosedLimitSwitch |-> fullyClosedLimitSwitch,
      roofLockedSwitch |-> roofLockedSwitch,
      roofAuxiliarySwitch |-> roofAuxiliarySwitch,
      roofTimedOut |-> roofTimedOut, limitMsg |-> limitMsg,
      communicationErrors |-> communicationErrors,
      RoofStatusL |-> RoofStatusL, RoofStatusLP |-> RoofStatusLP,
      LockS |-> LockS, AuxS |-> AuxS, running |-> running, isConnected |-> isConnected,
      DomeMotionSP |-> DomeMotionSP, DomeMotionS |-> DomeMotionS,
      m_DomeState |-> m_DomeState, timers |-> timers, pinLevel |-> pinLevel,
      pinMode |-> pinMode, op |-> op, writes |-> writes, log |-> log,
      snap |-> snap, sinceAccept |-> sinceAccept]

Commit(r) ==
    /\ contactEstablished' = r.contactEstablished
    /\ roofOpening' = r.roofOpening
    /\ roofClosing' = r.roofClosing
    /\ MotionRequest' = r.MotionRequest
    /\ MotionStart' = r.MotionStart
    /\ fullyOpenedLimitSwitch' = r.fullyOpenedLimitSwitch
    /\ fullyClosedLimitSwitch' = r.fullyClosedLimitSwitch
    /\ roofLockedSwitch' = r.roofLockedSwitch
    /\ roofAuxiliarySwitch' = r.roofAuxiliarySwitch
    /\ roofTimedOut' = r.roofTimedOut
    /\ limitMsg' = r.limitMsg
    /\ communicationErrors' = r.communicationErrors
    /\ RoofStatusL' = r.RoofStatusL
    /\ RoofStatusLP' = r.RoofStatusLP
    /\ LockS' = r.LockS
    /\ AuxS' = r.AuxS
    /\ running' = r.running
    /\ isConnected' = r.isConnected
    /\ DomeMotionSP' = r.DomeMotionSP
    /\ DomeMotionS' = r.DomeMotionS
    /\ m_DomeState' = r.m_DomeState
    /\ timers' = r.timers
    /\ pinLevel' = r.pinLevel
    /\ pinMode' = r.pinMode
    /\ op' = r.op
    /\ writes' = r.writes
    /\ log' = r.log
    /\ snap' = r.snap
    /\ sinceAccept' = r.sinceAccept

\* The indices an operation used on the pin number arrays of the output and
\* of the input definitions: none.
NoIndex == [out |-> {}, inp |-> {}]

\* A handler starts with nothing written and nothing logged.
Enter(st, name, dir) ==
    [st EXCEPT !.op = [name |-> name, dir |-> dir, rc |-> "none", actuate |-> "none",
                       lock |-> "none", ret |-> "none", status |-> FALSE, fault |-> <<>>,
                       mount |-> FALSE, read |-> <<>>,
                       index |-> NoIndex],
               !.writes = <<>>, !.log = <<>>]

Return(st, rc) == [st EXCEPT !.op.rc = rc]

LogMsg(st, m) == [st EXCEPT !.log = Append(@, m)]

\* ------------------------------------------------------------ GPIO service
\* What gpio_read can return for a pin, and what gpio_write, set_mode and
\* set_pull_up_down can: 0 or an error.
GpioReadResults == {0, 1, PI_BAD_GPIO, PI_OTHER_ERROR}
GpioCallResults == {0, PI_OTHER_ERROR}

PinSet == {GPIO_PIN_INITIAL} \cup (GPIO_PIN_MIN..GPIO_PIN_MAX)

\* gpio_write(pi_id, gpio, level) with result err: the call is recorded, the
\* pin takes the level when the call succeeds.
gpio_write(st, gpio, level, err) ==
    [st EXCEPT !.writes = Append(@, [gpio |-> gpio, level |-> level, err |-> err]),
               !.pinLevel = IF err = 0 THEN [@ EXCEPT ![gpio] = level] ELSE @]

\* ------------------------------------------------------------ SensorReader
InpSelected(i, roofSwitchId) ==
    \E j \in 1..MAX_INP_OPS : inpOps[j] = roofSwitchId /\ inpFunctionS[i] = j

InpMapped(roofSwitchId) == \E i \in InpSlots : InpSelected(i, roofSwitchId)

\* The first input definition that selects the switch.
InpSlotOf(roofSwitchId) == Min({i \in InpSlots : InpSelected(i, roofSwitchId)})

\* A switch that is on at level 1 whatever its definition says.
InpActiveAtOne(i, retValue) == retValue = 1

\* Whether the level read is the active level of definition i.
InpActive(i, retValue) ==
    \/ inpActivateWhenS[i] = "High" /\ retValue = 1
    \/ inpActivateWhenS[i] = "Low" /\ retValue = 0

\* readRoofSwitch(roofSwitchId, &result); retValue is what gpio_read returns
\* if the call is reached.  bad: the read returned PI_BAD_GPIO and the
\* function made its log call for it.
readRoofSwitch(st, roofSwitchId, retValue) ==
    IF ~st.contactEstablished THEN [ok |-> FALSE, result |-> FALSE, bad |-> FALSE]
    ELSE IF ~InpMapped(roofSwitchId)
    THEN IF roofSwitchId \in {ROOF_OPENED_SWITCH, ROOF_CLOSED_SWITCH}
         THEN [ok |-> FALSE, result |-> FALSE, bad |-> FALSE]
         ELSE [ok |-> TRUE, result |-> FALSE, bad |-> FALSE]
    ELSE IF retValue = PI_BAD_GPIO THEN [ok |-> FALSE, result |-> FALSE, bad |-> TRUE]
    ELSE [ok |-> TRUE, result |-> InpActive(InpSlotOf(roofSwitchId), retValue), bad |-> FALSE]

ISState(b) == IF b THEN "ISS_ON" ELSE "ISS_OFF"

\* What a getter does with the result r of readRoofSwitch: the switch field
\* takes the state read when the read succeeded.  The first log call for a
\* failed gpio_read is recorded with the pins and the writes at that call.
getSwitch(st, field, r) ==
    [st |-> IF r.ok THEN [st EXCEPT ![field] = ISState(r.result)]
            ELSE IF r.bad /\ st.op.fault = <<>>
            THEN [st EXCEPT !.op.fault = <<[pinLevel |-> st.pinLevel, writes |-> st.writes]>>]
            ELSE st,
     ok |-> r.ok, switchState |-> r.result]

getFullOpenedLimitSwitch(st, retValue) ==
    getSwitch(st, "fullyOpenedLimitSwitch", readRoofSwitch(st, ROOF_OPENED_SWITCH, retValue))

getFullClosedLimitSwitch(st, retValue) ==
    getSwitch(st, "fullyClosedLimitSwitch", readRoofSwitch(st, ROOF_CLOSED_SWITCH, retValue))

getRoofLockedSwitch(st, retValue) ==
    getSwitch(st, "roofLockedSwitch", readRoofSwitch(st, ROOF_LOCKED_SWITCH, retValue))

getRoofAuxSwitch(st, retValue) ==
    getSwitch(st, "roofAuxiliarySwitch", readRoofSwitch(st, ROOF_AUX_SWITCH, retValue))

\* The getter of the switch.
getRoofSwitch(st, roofSwitchId, retValue) ==
    IF roofSwitchId = ROOF_OPENED_SWITCH THEN getFullOpenedLimitSwitch(st, retValue)
    ELSE IF roofSwitchId = ROOF_CLOSED_SWITCH THEN getFullClosedLimitSwitch(st, retValue)
    ELSE IF roofSwitchId = ROOF_LOCKED_SWITCH THEN getRoofLockedSwitch(st, retValue)
    ELSE getRoofAuxSwitch(st, retValue)

\* The getter returns g: the operation holds what it returned and the state
\* of the switch it passed back.
getRoofSwitchReturn(g) ==
    [g.st EXCEPT !.op.rc = IF g.ok THEN "true" ELSE "false",
                 !.op.ret = IF g.switchState THEN "true" ELSE "false"]

\* One read of a switch: the getter of the switch with gpio_read returning
\* retValue.
ReadSwitch(st, roofSwitchId, retValue) ==
    getRoofSwitchReturn(
        getRoofSwitch([Enter(st, "readRoofSwitch", "NONE") EXCEPT
                          !.op.read = [id |-> roofSwitchId, level |-> retValue]],
                      roofSwitchId, retValue))

\* ------------------------------------------------------------ RoofActuator
OutSelected(i, button) ==
    \E j \in 1..MAX_OUT_OPS : outOps[j] = button /\ outFunctionS[i] = j

OutMapped(button) == \E i \in OutSlots : OutSelected(i, button)

\* The first output definition that selects the button.
OutSlotOf(button) == Min({i \in OutSlots : OutSelected(i, button)})

MoveFunctions == {ROOF_OPEN_RELAY, ROOF_CLOSE_RELAY, ROOF_ABORT_RELAY}

\* wantHigh that follows switchOn for an active high relay only.
WantHighOnly(i, switchOn) ==
    IF outActivateWhenS[i] = "High" THEN switchOn
    ELSE FALSE

\* wantHigh of pushRoofButton for definition i.
WantHigh(i, switchOn) ==
    IF outActivateWhenS[i] = "High" THEN switchOn
    ELSE IF outActivateWhenS[i] = "Low" THEN ~switchOn
    ELSE FALSE

\* intervalMilli of pushRoofButton for definition i.
IntervalMilli(i) == IF outActiveLimitS[i] # 0 THEN activeLimitMilli[outActiveLimitS[i]] ELSE 0

\* The level of the first write of pushRoofButton and of the second, the
\* one that ends a pulse.
PulseLevel(wantHigh) == IF wantHigh THEN 1 ELSE 0
PulseResetLevel(wantHigh) == IF wantHigh THEN 0 ELSE 1

\* pushRoofButton returns ret.
pushRoofButtonReturn(st, ret) ==
    [st |-> [st EXCEPT !.op.ret = IF ret THEN "true" ELSE "false"], ret |-> ret]

\* pushRoofButton from its first gpio_write on, for the definition i found;
\* s2 is the state after the first write.
pushRoofButtonWritten(s2, i, switchOn, w1, w2) ==
    IF w1 # 0 THEN pushRoofButtonReturn(s2, FALSE)
    ELSE IF IntervalMilli(i) > 0
    THEN pushRoofButtonReturn(
             gpio_write(s2, outPinNumberN[i], PulseResetLevel(WantHigh(i, switchOn)), w2),
             w2 = 0)
    ELSE pushRoofButtonReturn(s2, TRUE)

\* pushRoofButton that takes every button without a definition for unused.
pushRoofButtonFindAnyUnused(st, button, switchOn, w1, w2) ==
    IF ~OutMapped(button) THEN pushRoofButtonReturn(st, TRUE)
    ELSE IF outActiveLimitS[OutSlotOf(button)] # 0 /\ IntervalMilli(OutSlotOf(button)) = 0
            /\ button \in MoveFunctions
    THEN pushRoofButtonReturn(st, FALSE)
    ELSE pushRoofButtonWritten(
             gpio_write(st, outPinNumberN[OutSlotOf(button)],
                        PulseLevel(WantHigh(OutSlotOf(button), switchOn)), w1),
             OutSlotOf(button), switchOn, w1, w2)

\* pushRoofButton after the lock check passed.
pushRoofButtonFind(st, button, switchOn, w1, w2) ==
    IF ~OutMapped(button) THEN pushRoofButtonReturn(st, button \notin MoveFunctions)
    ELSE IF outActiveLimitS[OutSlotOf(button)] # 0 /\ IntervalMilli(OutSlotOf(button)) = 0
            /\ button \in MoveFunctions
    THEN pushRoofButtonReturn(st, FALSE)
    ELSE pushRoofButtonWritten(
             gpio_write(st, outPinNumberN[OutSlotOf(button)],
                        PulseLevel(WantHigh(OutSlotOf(button), switchOn)), w1),
             OutSlotOf(button), switchOn, w1, w2)

\* The lock check that takes a failed read of the lock switch for an
\* unlocked roof.
pushRoofButtonLockedOnly(g, button, switchOn, ignoreLock, w1, w2) ==
    IF g.switchState /\ ~ignoreLock
    THEN pushRoofButtonReturn([g.st EXCEPT !.op.lock = "active"], FALSE)
    ELSE pushRoofButtonFind(
             [g.st EXCEPT !.op.lock = IF ~g.ok THEN "failed"
                                      ELSE IF g.switchState THEN "active" ELSE "inactive"],
             button, switchOn, w1, w2)

\* pushRoofButton after getRoofLockedSwitch returned g.
pushRoofButtonLocked(g, button, switchOn, ignoreLock, w1, w2) ==
    IF (~g.ok \/ g.switchState) /\ ~ignoreLock
    THEN pushRoofButtonReturn(
             [g.st EXCEPT !.op.lock = IF ~g.ok THEN "failed" ELSE "active"], FALSE)
    ELSE pushRoofButtonFind(
             [g.st EXCEPT !.op.lock = IF ~g.ok THEN "failed"
                                      ELSE IF g.switchState THEN "active" ELSE "inactive"],
             button, switchOn, w1, w2)

\* pushRoofButton(button, switchOn, ignoreLock).  lockRet is the reading of
\* the lock pin, w1 and w2 the results of the two gpio_write calls.
pushRoofButton(st, button, switchOn, ignoreLock, lockRet, w1, w2) ==
    IF ~st.contactEstablished
    THEN pushRoofButtonReturn([st EXCEPT !.op.actuate = button], FALSE)
    ELSE pushRoofButtonLocked(
             getRoofLockedSwitch([st EXCEPT !.op.actuate = button], lockRet),
             button, switchOn, ignoreLock, w1, w2)

roofOpen(st, lockRet, w1, w2) == pushRoofButton(st, ROOF_OPEN_RELAY, TRUE, FALSE, lockRet, w1, w2)
roofClose(st, lockRet, w1, w2) == pushRoofButton(st, ROOF_CLOSE_RELAY, TRUE, FALSE, lockRet, w1, w2)
roofAbort(st, lockRet, w1, w2) == pushRoofButton(st, ROOF_ABORT_RELAY, TRUE, FALSE, lockRet, w1, w2)
\* setRoofLock that leaves the lock interlock in force.
setRoofLockInterlocked(st, switchOn, lockRet, w1, w2) == pushRoofButton(st, ROOF_LOCK_RELAY, switchOn, FALSE, lockRet, w1, w2)
setRoofLock(st, switchOn, lockRet, w1, w2) == pushRoofButton(st, ROOF_LOCK_RELAY, switchOn, TRUE, lockRet, w1, w2)
setRoofAux(st, switchOn, lockRet, w1, w2) == pushRoofButton(st, ROOF_AUX_RELAY, switchOn, TRUE, lockRet, w1, w2)

\* -------------------------------------------------------- StatusAggregator
AllIdle == [l \in Lights |-> "IPS_IDLE"]

\* The lights with the auxiliary light set and one or two more.
LightsWith(auxiliaryState, more) ==
    [l \in Lights |-> IF l \in DOMAIN more THEN more[l]
                      ELSE IF l = "ROOF_STATUS_AUXSTATE" /\ auxiliaryState THEN "IPS_OK"
                      ELSE "IPS_IDLE"]

\* The throttle with the error one count late: the counter stops before it.
LimitMsgStepLateError(st) ==
    IF st.limitMsg <= LIMIT_MSG_WARN_MAX
    THEN LogMsg([st EXCEPT !.limitMsg = @ + 1], "WARN_STATIONARY")
    ELSE IF st.limitMsg = LIMIT_MSG_ERROR_AT + 1
    THEN LogMsg([st EXCEPT !.limitMsg = @ + 1], "ERROR_STATIONARY")
    ELSE st

\* The message throttle of updateRoofStatus for a stationary roof that is
\* neither opened nor closed.
LimitMsgStep(st) ==
    IF st.limitMsg <= LIMIT_MSG_WARN_MAX
    THEN LogMsg([st EXCEPT !.limitMsg = @ + 1], "WARN_STATIONARY")
    ELSE IF st.limitMsg = LIMIT_MSG_ERROR_AT
    THEN LogMsg([st EXCEPT !.limitMsg = @ + 1], "ERROR_STATIONARY")
    ELSE st

\* The lights with the test for a session under lock made before the tests
\* of the limit switches.
StatusLightsSessionFirst(st, openedState, closedState, lockedState, auxiliaryState) ==
    IF lockedState
    THEN IF st.roofOpening \/ st.roofClosing
         THEN [L |-> LightsWith(auxiliaryState, [ROOF_STATUS_LOCKED |-> "IPS_ALERT",
                                                 ROOF_STATUS_MOVING |-> "IPS_ALERT"]),
               LP |-> "IPS_ALERT"]
         ELSE IF closedState
         THEN [L |-> LightsWith(auxiliaryState, [ROOF_STATUS_LOCKED |-> "IPS_ALERT",
                                                 ROOF_STATUS_CLOSED |-> "IPS_OK"]),
               LP |-> "IPS_OK"]
         ELSE IF openedState
         THEN [L |-> LightsWith(auxiliaryState, [ROOF_STATUS_LOCKED |-> "IPS_ALERT",
                                                 ROOF_STATUS_OPENED |-> "IPS_OK"]),
               LP |-> "IPS_OK"]
         ELSE IF st.roofOpening \/ st.roofClosing
         THEN [L |-> LightsWith(auxiliaryState, [ROOF_STATUS_LOCKED |-> "IPS_ALERT",
                                                 ROOF_STATUS_MOVING |-> "IPS_ALERT"]),
               LP |-> "IPS_ALERT"]
         ELSE [L |-> LightsWith(auxiliaryState, [ROOF_STATUS_LOCKED |-> "IPS_ALERT"]),
               LP |-> "IPS_IDLE"]
    ELSE IF openedState \/ closedState
    THEN IF openedState /\ ~closedState
         THEN [L |-> LightsWith(auxiliaryState, [ROOF_STATUS_OPENED |-> "IPS_OK"]),
               LP |-> "IPS_OK"]
         ELSE IF closedState /\ ~openedState
         THEN [L |-> LightsWith(auxiliaryState, [ROOF_STATUS_CLOSED |-> "IPS_OK"]),
               LP |-> "IPS_OK"]
         ELSE [L |-> LightsWith(auxiliaryState, <<>>), LP |-> "IPS_IDLE"]
    ELSE IF st.roofOpening \/ st.roofClosing
    THEN IF st.roofOpening
         THEN [L |-> LightsWith(auxiliaryState, [ROOF_STATUS_OPENED |-> "IPS_BUSY",
                                                 ROOF_STATUS_MOVING |-> "IPS_BUSY"]),
               LP |-> "IPS_BUSY"]
         ELSE [L |-> LightsWith(auxiliaryState, [ROOF_STATUS_CLOSED |-> "IPS_BUSY",
                                                 ROOF_STATUS_MOVING |-> "IPS_BUSY"]),
               LP |-> "IPS_BUSY"]
    ELSE IF st.roofTimedOut = EXPIRED_OPEN
         THEN [L |-> LightsWith(auxiliaryState, [ROOF_STATUS_OPENED |-> "IPS_ALERT"]),
               LP |-> "IPS_ALERT"]
         ELSE IF st.roofTimedOut = EXPIRED_CLOSE
         THEN [L |-> LightsWith(auxiliaryState, [ROOF_STATUS_CLOSED |-> "IPS_ALERT"]),
               LP |-> "IPS_ALERT"]
         ELSE [L |-> LightsWith(auxiliaryState, <<>>), LP |-> "IPS_ALERT"]

\* The lights of updateRoofStatus for the states read; the in-progress flags
\* are those of the record.
StatusLights(st, openedState, closedState, lockedState, auxiliaryState) ==
    IF lockedState
    THEN IF closedState
         THEN [L |-> LightsWith(auxiliaryState, [ROOF_STATUS_LOCKED |-> "IPS_ALERT",
                                                 ROOF_STATUS_CLOSED |-> "IPS_OK"]),
               LP |-> "IPS_OK"]
         ELSE IF openedState
         THEN [L |-> LightsWith(auxiliaryState, [ROOF_STATUS_LOCKED |-> "IPS_ALERT",
                                                 ROOF_STATUS_OPENED |-> "IPS_OK"]),
               LP |-> "IPS_OK"]
         ELSE IF st.roofOpening \/ st.roofClosing
         THEN [L |-> LightsWith(auxiliaryState, [ROOF_STATUS_LOCKED |-> "IPS_ALERT",
                                                 ROOF_STATUS_MOVING |-> "IPS_ALERT"]),
               LP |-> "IPS_ALERT"]
         ELSE [L |-> LightsWith(auxiliaryState, [ROOF_STATUS_LOCKED |-> "IPS_ALERT"]),
               LP |-> "IPS_IDLE"]
    ELSE IF openedState \/ closedState
    THEN IF openedState /\ ~closedState
         THEN [L |-> LightsWith(auxiliaryState, [ROOF_STATUS_OPENED |-> "IPS_OK"]),
               LP |-> "IPS_OK"]
         ELSE IF closedState /\ ~openedState
         THEN [L |-> LightsWith(auxiliaryState, [ROOF_STATUS_CLOSED |-> "IPS_OK"]),
               LP |-> "IPS_OK"]
         ELSE [L |-> LightsWith(auxiliaryState, <<>>), LP |-> "IPS_IDLE"]
    ELSE IF st.roofOpening \/ st.roofClosing
    THEN IF st.roofOpening
         THEN [L |-> LightsWith(auxiliaryState, [ROOF_STATUS_OPENED |-> "IPS_BUSY",
                                                 ROOF_STATUS_MOVING |-> "IPS_BUSY"]),
               LP |-> "IPS_BUSY"]
         ELSE [L |-> LightsWith(auxiliaryState, [ROOF_STATUS_CLOSED |-> "IPS_BUSY",
                                                 ROOF_STATUS_MOVING |-> "IPS_BUSY"]),
               LP |-> "IPS_BUSY"]
    ELSE IF st.roofTimedOut = EXPIRED_OPEN
         THEN [L |-> LightsWith(auxiliaryState, [ROOF_STATUS_OPENED |-> "IPS_ALERT"]),
               LP |-> "IPS_ALERT"]
         ELSE IF st.roofTimedOut = EXPIRED_CLOSE
         THEN [L |-> LightsWith(auxiliaryState, [ROOF_STATUS_CLOSED |-> "IPS_ALERT"]),
               LP |-> "IPS_ALERT"]
         ELSE [L |-> LightsWith(auxiliaryState, <<>>), LP |-> "IPS_ALERT"]

\* The count of stationary computations in a row stops at RunCap.
RunCap == LIMIT_MSG_ERROR_AT + 2

\* The four reads of updateRoofStatus, in its order: the record after them
\* and the four locals.
ReadSwitches(st, rd) ==
    LET g1 == getFullOpenedLimitSwitch(st, rd.opened)
        g2 == getFullClosedLimitSwitch(g1.st, rd.closed)
        g3 == getRoofLockedSwitch(g2.st, rd.locked)
        g4 == getRoofAuxSwitch(g3.st, rd.aux)
    IN  [st |-> g4.st, openedState |-> g1.switchState, closedState |-> g2.switchState,
         lockedState |-> g3.switchState, auxiliaryState |-> g4.switchState]

\* The messages with the contradiction warning only for a roof at rest.
StatusMessagesAtRest(st, openedState, closedState) ==
    IF ~openedState /\ ~closedState /\ ~st.roofOpening /\ ~st.roofClosing
    THEN LimitMsgStep(st)
    ELSE IF openedState /\ closedState /\ ~st.roofOpening /\ ~st.roofClosing
    THEN LogMsg([st EXCEPT !.limitMsg = 0], "WARN_OPENED_AND_CLOSED")
    ELSE [st EXCEPT !.limitMsg = 0]

\* The messages of updateRoofStatus.
StatusMessages(st, openedState, closedState) ==
    IF ~openedState /\ ~closedState /\ ~st.roofOpening /\ ~st.roofClosing
    THEN LimitMsgStep(st)
    ELSE IF openedState /\ closedState
    THEN LogMsg([st EXCEPT !.limitMsg = 0], "WARN_OPENED_AND_CLOSED")
    ELSE [st EXCEPT !.limitMsg = 0]

\* The flags cleared the wrong way round.
ClearReachedSwapped(st, openedState, closedState, lockedState) ==
    IF ~lockedState /\ openedState /\ ~closedState THEN [st EXCEPT !.roofClosing = FALSE]
    ELSE IF ~lockedState /\ closedState /\ ~openedState THEN [st EXCEPT !.roofOpening = FALSE]
    ELSE st

\* The in-progress flag updateRoofStatus clears with the lights.
ClearReached(st, openedState, closedState, lockedState) ==
    IF ~lockedState /\ openedState /\ ~closedState THEN [st EXCEPT !.roofOpening = FALSE]
    ELSE IF ~lockedState /\ closedState /\ ~openedState THEN [st EXCEPT !.roofClosing = FALSE]
    ELSE st

\* updateRoofStatus ends: s7 is the record with the flags cleared, lights
\* the lights it sets, r the reads, run the count of stationary computations
\* before this one.
StatusSet(s7, lights, r, run) ==
    [s7 EXCEPT !.RoofStatusL = lights.L, !.RoofStatusLP = lights.LP,
               !.op.status = TRUE,
               !.snap = [openedState |-> r.openedState, closedState |-> r.closedState,
                         lockedState |-> r.lockedState,
                         auxiliaryState |-> r.auxiliaryState,
                         moving |-> r.st.roofOpening \/ r.st.roofClosing,
                         progress |-> s7.roofOpening \/ s7.roofClosing,
                         run |-> IF ~r.openedState /\ ~r.closedState
                                    /\ ~r.st.roofOpening /\ ~r.st.roofClosing
                                 THEN Min({run + 1, RunCap})
                                 ELSE 0]]

\* updateRoofStatus after the messages: s6 is the record after them.
StatusShown(s6, r, run) ==
    StatusSet(ClearReached(s6, r.openedState, r.closedState, r.lockedState),
              StatusLights(s6, r.openedState, r.closedState, r.lockedState, r.auxiliaryState),
              r, run)

\* updateRoofStatus after the four reads r.
StatusRead(r, run) ==
    StatusShown(StatusMessages(r.st, r.openedState, r.closedState), r, run)

\* updateRoofStatus(); rd holds what gpio_read returns for the four sensors.
updateRoofStatus(st, rd) == StatusRead(ReadSwitches(st, rd), st.snap.run)

\* ------------------------------------------------------------- PinRegistry
\* A slot whose selected function is a function (a switch is ON and it is
\* not "Unused"): the slots gpioPinSet works on.
OutDefined(i) == outFunctionS[i] # 0 /\ outOps[outFunctionS[i]] # "Unused"
InpDefined(i) == inpFunctionS[i] # 0 /\ inpOps[inpFunctionS[i]] # "Unused"

\* The count gpioPinSet keeps of the required functions it meets.
required ==
    Cardinality({i \in OutSlots : /\ OutDefined(i)
                                  /\ outOps[outFunctionS[i]] \in {outOps[1], outOps[2]}
                                  /\ outPinNumberN[i] > 2})
    + Cardinality({i \in InpSlots : /\ InpDefined(i)
                                    /\ inpOps[inpFunctionS[i]] \in {inpOps[1], inpOps[2]}
                                    /\ inpPinNumberN[i] > 2})

\* One output definition of gpioPinSet: output mode, resistor off, relay off.
\* e holds the results of set_mode, set_pull_up_down and gpio_write.
gpioPinSetOut(st, i, e) ==
    IF ~OutDefined(i) THEN st
    ELSE IF e.mode # 0 THEN st
    ELSE IF e.pud # 0 THEN [st EXCEPT !.pinMode[outPinNumberN[i]] = "PI_OUTPUT"]
    ELSE gpio_write([st EXCEPT !.pinMode[outPinNumberN[i]] = "PI_OUTPUT"], outPinNumberN[i],
                    IF outActivateWhenS[i] = "High" THEN 0 ELSE 1, e.write)

gpioPinSetInp(st, i, e) ==
    IF ~InpDefined(i) THEN st
    ELSE IF e.mode # 0 THEN st
    ELSE [st EXCEPT !.pinMode[inpPinNumberN[i]] = "PI_INPUT"]

RECURSIVE gpioPinSetOuts(_, _, _)
gpioPinSetOuts(st, i, e) ==
    IF i > MAX_OUT_DEFS THEN st ELSE gpioPinSetOuts(gpioPinSetOut(st, i, e), i + 1, e)

RECURSIVE gpioPinSetInps(_, _, _)
gpioPinSetInps(st, i, e) ==
    IF i > MAX_INP_DEFS THEN st ELSE gpioPinSetInps(gpioPinSetInp(st, i, e), i + 1, e)

\* The message of gpioPinSet when the count is short.
gpioPinSetCheck(st) == IF required < 4 THEN LogMsg(st, "ERROR_GPIO_DEFINITIONS") ELSE st

gpioPinSet(st, e) == gpioPinSetCheck(gpioPinSetInps(gpioPinSetOuts(st, 1, e), 1, e))

\* ------------------------------------------- INDI::Dome and DefaultDevice
\* SetTimer(ms): one more one-shot timer.
RECURSIVE InsertSorted(_, _)
InsertSorted(seq, x) ==
    IF seq = <<>> THEN <<x>>
    ELSE IF x <= Head(seq) THEN <<x>> \o seq
    ELSE <<Head(seq)>> \o InsertSorted(Tail(seq), x)

SetTimer(st, ms) == [st EXCEPT !.timers = InsertSorted(@, ms)]

\* setDomeState(value): leaving a motion resets the motion switch.
setDomeState(st, value) ==
    IF value \in {"DOME_IDLE", "DOME_PARKED"} /\ st.DomeMotionSP = "IPS_BUSY"
    THEN [st EXCEPT !.DomeMotionS = "NONE", !.DomeMotionSP = "IPS_IDLE", !.m_DomeState = value]
    ELSE [st EXCEPT !.m_DomeState = value]

\* SetParked(isparked): SyncParkStatus, then the parked or unparked state.
SetParked(st, isparked) ==
    setDomeState(setDomeState(st, "DOME_IDLE"),
                 IF isparked THEN "DOME_PARKED" ELSE "DOME_UNPARKED")

\* ------------------------------------------------------ MotionStateMachine
\* CalcTimeLeft(MotionStart), in milliseconds.
CalcTimeLeft(st) == st.MotionRequest * 1000 - st.MotionStart

\* The end of a Move that leaves the recorded timeout as it was.
MoveStartedKeepsTimeout(st) ==
    Return(SetTimer([st EXCEPT !.MotionRequest = RoofTimeoutN,
                               !.MotionStart = 0,
                               !.sinceAccept = 0], INACTIVE_TIMING), "IPS_BUSY")

\* The end of a Move that started a motion.
MoveStarted(st) ==
    Return(SetTimer([st EXCEPT !.roofTimedOut = EXPIRED_CLEAR,
                               !.MotionRequest = RoofTimeoutN,
                               !.MotionStart = 0,
                               !.sinceAccept = 0], INACTIVE_TIMING), "IPS_BUSY")

\* Move that marks the roof as opening before roofOpen() has returned.
MoveOpenFlagFirst(p) ==
    IF p.ret THEN MoveStarted([p.st EXCEPT !.roofOpening = TRUE, !.roofClosing = FALSE])
    ELSE Return([p.st EXCEPT !.roofOpening = TRUE], "IPS_ALERT")

\* Move after roofOpen() returned p.
MoveOpen(p) ==
    IF p.ret THEN MoveStarted([p.st EXCEPT !.roofOpening = TRUE, !.roofClosing = FALSE])
    ELSE Return(p.st, "IPS_ALERT")

\* Move after roofClose() returned p.
MoveClose(p) ==
    IF p.ret THEN MoveStarted([p.st EXCEPT !.roofClosing = TRUE, !.roofOpening = FALSE])
    ELSE Return(p.st, "IPS_ALERT")

\* Move without the check for a closing in progress.
MoveDirectiveOpeningOnly(s1, dir, operation, mountLocked, lockRet, w1, w2) ==
    IF operation # "MOTION_START" THEN Return(s1, "IPS_ALERT")
    ELSE IF s1.roofLockedSwitch = "ISS_ON" THEN Return(s1, "IPS_ALERT")
    ELSE IF s1.roofOpening THEN Return(s1, "IPS_OK")
    ELSE IF dir = "DOME_CW"
    THEN IF s1.fullyOpenedLimitSwitch = "ISS_ON"
         THEN Return(SetParked(s1, FALSE), "IPS_ALERT")
         ELSE MoveOpen(roofOpen(s1, lockRet, w1, w2))
    ELSE IF s1.fullyClosedLimitSwitch = "ISS_ON"
         THEN Return(SetParked(s1, TRUE), "IPS_ALERT")
         ELSE IF mountLocked THEN Return(s1, "IPS_ALERT")
         ELSE MoveClose(roofClose(s1, lockRet, w1, w2))

\* Move that does not force the park state of a roof already at its limit.
MoveDirectiveNoPark(s1, dir, operation, mountLocked, lockRet, w1, w2) ==
    IF operation # "MOTION_START" THEN Return(s1, "IPS_ALERT")
    ELSE IF s1.roofLockedSwitch = "ISS_ON" THEN Return(s1, "IPS_ALERT")
    ELSE IF s1.roofOpening THEN Return(s1, "IPS_OK")
    ELSE IF s1.roofClosing THEN Return(s1, "IPS_OK")
    ELSE IF dir = "DOME_CW"
    THEN IF s1.fullyOpenedLimitSwitch = "ISS_ON"
         THEN Return(s1, "IPS_ALERT")
         ELSE MoveOpen(roofOpen(s1, lockRet, w1, w2))
    ELSE IF s1.fullyClosedLimitSwitch = "ISS_ON"
         THEN Return(s1, "IPS_ALERT")
         ELSE IF mountLocked THEN Return(s1, "IPS_ALERT")
         ELSE MoveClose(roofClose(s1, lockRet, w1, w2))

\* Move that closes the roof whatever the mount does.
MoveDirectiveNoMountLock(s1, dir, operation, mountLocked, lockRet, w1, w2) ==
    IF operation # "MOTION_START" THEN Return(s1, "IPS_ALERT")
    ELSE IF s1.roofLockedSwitch = "ISS_ON" THEN Return(s1, "IPS_ALERT")
    ELSE IF s1.roofOpening THEN Return(s1, "IPS_OK")
    ELSE IF s1.roofClosing THEN Return(s1, "IPS_OK")
    ELSE IF dir = "DOME_CW"
    THEN IF s1.fullyOpenedLimitSwitch = "ISS_ON"
         THEN Return(SetParked(s1, FALSE), "IPS_ALERT")
         ELSE MoveOpen(roofOpen(s1, lockRet, w1, w2))
    ELSE IF s1.fullyClosedLimitSwitch = "ISS_ON"
         THEN Return(SetParked(s1, TRUE), "IPS_ALERT")
         ELSE MoveClose(roofClose(s1, lockRet, w1, w2))

\* Move that lets a request through when both limit switches are on.
MoveDirectiveContradiction(s1, dir, operation, mountLocked, lockRet, w1, w2) ==
    IF operation # "MOTION_START" THEN Return(s1, "IPS_ALERT")
    ELSE IF s1.roofLockedSwitch = "ISS_ON" THEN Return(s1, "IPS_ALERT")
    ELSE IF s1.roofOpening THEN Return(s1, "IPS_OK")
    ELSE IF s1.roofClosing THEN Return(s1, "IPS_OK")
    ELSE IF dir = "DOME_CW"
    THEN IF s1.fullyOpenedLimitSwitch = "ISS_ON" /\ s1.fullyClosedLimitSwitch # "ISS_ON"
         THEN Return(SetParked(s1, FALSE), "IPS_ALERT")
         ELSE MoveOpen(roofOpen(s1, lockRet, w1, w2))
    ELSE IF s1.fullyClosedLimitSwitch = "ISS_ON" /\ s1.fullyOpenedLimitSwitch # "ISS_ON"
         THEN Return(SetParked(s1, TRUE), "IPS_ALERT")
         ELSE IF mountLocked THEN Return(s1, "IPS_ALERT")
         ELSE MoveClose(roofClose(s1, lockRet, w1, w2))

\* Move that starts a session without regard to one in progress.
MoveDirectiveNoExclusion(s1, dir, operation, mountLocked, lockRet, w1, w2) ==
    IF operation # "MOTION_START" THEN Return(s1, "IPS_ALERT")
    ELSE IF s1.roofLockedSwitch = "ISS_ON" THEN Return(s1, "IPS_ALERT")
    ELSE IF dir = "DOME_CW"
    THEN IF s1.fullyOpenedLimitSwitch = "ISS_ON"
         THEN Return(SetParked(s1, FALSE), "IPS_ALERT")
         ELSE IF roofOpen(s1, lockRet, w1, w2).ret
         THEN MoveStarted([roofOpen(s1, lockRet, w1, w2).st EXCEPT !.roofOpening = TRUE])
         ELSE Return(roofOpen(s1, lockRet, w1, w2).st, "IPS_ALERT")
    ELSE IF s1.fullyClosedLimitSwitch = "ISS_ON"
         THEN Return(SetParked(s1, TRUE), "IPS_ALERT")
         ELSE IF mountLocked THEN Return(s1, "IPS_ALERT")
         ELSE IF roofClose(s1, lockRet, w1, w2).ret
         THEN MoveStarted([roofClose(s1, lockRet, w1, w2).st EXCEPT !.roofClosing = TRUE])
         ELSE Return(roofClose(s1, lockRet, w1, w2).st, "IPS_ALERT")

\* Move after its updateRoofStatus.
MoveDirective(s1, dir, operation, mountLocked, lockRet, w1, w2) ==
    IF operation # "MOTION_START" THEN Return(s1, "IPS_ALERT")
    ELSE IF s1.roofLockedSwitch = "ISS_ON" THEN Return(s1, "IPS_ALERT")
    ELSE IF s1.roofOpening THEN Return(s1, "IPS_OK")
    ELSE IF s1.roofClosing THEN Return(s1, "IPS_OK")
    ELSE IF dir = "DOME_CW"
    THEN IF s1.fullyOpenedLimitSwitch = "ISS_ON"
         THEN Return(SetParked(s1, FALSE), "IPS_ALERT")
         ELSE MoveOpen(roofOpen(s1, lockRet, w1, w2))
    ELSE IF s1.fullyClosedLimitSwitch = "ISS_ON"
         THEN Return(SetParked(s1, TRUE), "IPS_ALERT")
         ELSE IF mountLocked THEN Return(s1, "IPS_ALERT")
         ELSE MoveClose(roofClose(s1, lockRet, w1, w2))

\* RollOffIno::Move(dir, operation).  mountLocked is INDI::Dome::isLocked().
Move(st, dir, operation, rd, mountLocked, lockRet, w1, w2) ==
    MoveDirective(updateRoofStatus(st, rd), dir, operation, mountLocked, lockRet, w1, w2)

\* INDI::Dome::Move after Move returned: the state of the motion property.
DomeMoveState(m, dir, operation) ==
    IF m.op.rc \in {"IPS_BUSY", "IPS_OK"}
    THEN [m EXCEPT !.DomeMotionSP = m.op.rc,
                   !.m_DomeState = IF operation = "MOTION_START"
                                   THEN "DOME_MOVING" ELSE "DOME_IDLE",
                   !.DomeMotionS = IF operation = "MOTION_START" THEN dir ELSE "NONE"]
    ELSE [m EXCEPT !.DomeMotionSP = m.op.rc]

\* INDI::Dome::Move for the request s0.
DomeMoveRequest(s0, dir, operation, rd, mountLocked, lockRet, w1, w2) ==
    IF s0.m_DomeState = "DOME_PARKING" THEN Return(s0, "refused")
    ELSE IF s0.DomeMotionSP = "IPS_BUSY" /\ s0.DomeMotionS = dir
            /\ operation = "MOTION_START"
    THEN Return(s0, "refused")
    ELSE DomeMoveState(Move(s0, dir, operation, rd, mountLocked, lockRet, w1, w2),
                       dir, operation)

\* INDI::Dome::Move(dir, operation): the request of the client; it calls Move.
DomeMove(st, dir, operation, rd, mountLocked, lockRet, w1, w2) ==
    DomeMoveRequest([Enter(st, "Move", dir) EXCEPT !.op.mount = mountLocked],
                    dir, operation, rd, mountLocked, lockRet, w1, w2)

\* What INDI::Dome::Move returns to its caller for the outcome m: the value
\* of the hook, or its own answer when it did not call the hook.
DomeMoveResult(m) ==
    IF m.op.rc # "refused" THEN m.op.rc
    ELSE IF m.m_DomeState = "DOME_PARKING" THEN "IPS_ALERT"
    ELSE "IPS_BUSY"

\* Park and UnPark that hand the result of INDI::Dome::Move on.
ParkReturnAsMove(m) == Return(m, DomeMoveResult(m))

\* The return of Park and UnPark for the outcome m of INDI::Dome::Move.
ParkReturn(m) ==
    Return(m, IF DomeMoveResult(m) = "IPS_BUSY" THEN "IPS_BUSY" ELSE "IPS_ALERT")

\* RollOffIno::Park().
Park(st, rd, mountLocked, lockRet, w1, w2) ==
    ParkReturn(DomeMoveRequest([Enter(st, "Park", "DOME_CCW") EXCEPT !.op.mount = mountLocked],
                               "DOME_CCW", "MOTION_START", rd, mountLocked, lockRet, w1, w2))

\* RollOffIno::UnPark().
UnPark(st, rd, mountLocked, lockRet, w1, w2) ==
    ParkReturn(DomeMoveRequest([Enter(st, "UnPark", "DOME_CW") EXCEPT !.op.mount = mountLocked],
                               "DOME_CW", "MOTION_START", rd, mountLocked, lockRet, w1, w2))

\* Abort after its updateRoofStatus.
AbortDirective(s1, lockRet, w1, w2) ==
    IF s1.roofLockedSwitch = "ISS_ON" THEN Return(s1, "true")
    ELSE IF s1.fullyClosedLimitSwitch = "ISS_ON" /\ s1.DomeMotionSP # "IPS_BUSY"
    THEN Return(s1, "true")
    ELSE IF s1.fullyOpenedLimitSwitch = "ISS_ON" /\ s1.DomeMotionSP # "IPS_BUSY"
    THEN Return(s1, "true")
    ELSE IF s1.DomeMotionSP # "IPS_BUSY" THEN Return(s1, "true")
    ELSE Return(roofAbort([s1 EXCEPT !.roofClosing = FALSE, !.roofOpening = FALSE,
                                     !.MotionRequest = 0 - 1], lockRet, w1, w2).st, "true")

\* RollOffIno::Abort().
Abort(st, rd, lockRet, w1, w2) == AbortDirective(updateRoofStatus(st, rd), lockRet, w1, w2)

\* INDI::Dome::Abort(): the request of the client; it calls Abort.
DomeAbort(st, rd, lockRet, w1, w2) ==
    setDomeState(Abort([Enter(st, "Abort", "NONE") EXCEPT !.sinceAccept = 0 - 1],
                       rd, lockRet, w1, w2), "DOME_IDLE")

\* ------------------------------------------------------------------ Poller
\* The end of TimerHit: the controller-errors check, the new stamp of
\* MotionStart and the next timer.
\* INDI::Dome::Disconnect(); initProperties(); communicationErrors = 0
TimerHitRearm(st, delay) ==
    Return(SetTimer(IF st.communicationErrors > MAX_CNTRL_COM_ERR
                    THEN [st EXCEPT !.isConnected = FALSE, !.communicationErrors = 0,
                                    !.LockS = "LOCK_DISABLE", !.AuxS = "AUX_DISABLE",
                                    !.RoofStatusL = AllIdle, !.RoofStatusLP = "IPS_BUSY",
                                    !.MotionStart = 0]
                    ELSE [st EXCEPT !.MotionStart = 0], delay), "rearmed")

\* TimerHit after its updateRoofStatus; timeleft is CalcTimeLeft(MotionStart).
TimerHitMotion(s1, timeleft) ==
    IF s1.DomeMotionSP # "IPS_BUSY" THEN TimerHitRearm(s1, INACTIVE_TIMING)
    ELSE IF s1.MotionRequest < 0
    THEN TimerHitRearm(setDomeState(s1, "DOME_IDLE"), INACTIVE_TIMING)
    ELSE IF s1.DomeMotionS = "DOME_CW"
    THEN IF s1.fullyOpenedLimitSwitch = "ISS_ON"
         THEN TimerHitRearm(SetParked(s1, FALSE), INACTIVE_TIMING)
         ELSE IF timeleft <= 0
         THEN TimerHitRearm([setDomeState(s1, "DOME_IDLE") EXCEPT
                                !.roofOpening = FALSE, !.roofTimedOut = EXPIRED_OPEN],
                            INACTIVE_TIMING)
         ELSE TimerHitRearm(s1, ACTIVE_POLL_MS)
    ELSE IF s1.DomeMotionS = "DOME_CCW"
    THEN IF s1.fullyClosedLimitSwitch = "ISS_ON"
         THEN TimerHitRearm(SetParked(s1, TRUE), INACTIVE_TIMING)
         ELSE IF timeleft <= 0
         THEN TimerHitRearm([setDomeState(s1, "DOME_IDLE") EXCEPT
                                !.roofClosing = FALSE, !.roofTimedOut = EXPIRED_CLOSE],
                            INACTIVE_TIMING)
         ELSE TimerHitRearm(s1, ACTIVE_POLL_MS)
    ELSE TimerHitRearm(s1, INACTIVE_TIMING)

\* TimerHit for the timer taken off the queue.
TimerHitDue(s0, rd) ==
    IF ~s0.isConnected THEN Return(s0, "not connected")
    ELSE TimerHitMotion(updateRoofStatus(s0, rd), CalcTimeLeft(s0))

\* TimerHit() of the timer that is due first.
TimerHit(st, rd) == TimerHitDue(Enter([st EXCEPT !.timers = Tail(@)], "TimerHit", "NONE"), rd)

\* Connect() after pigpio_start succeeded, then updateProperties() of the
\* connected device: InitPark and setupConditions.
ConnectStarted(s0, e, parked, rd) ==
    Return(updateRoofStatus(
               SetParked([SetTimer(gpioPinSet([s0 EXCEPT !.contactEstablished = TRUE], e),
                                   INITIAL_TIMING) EXCEPT !.isConnected = TRUE], parked),
               rd), "true")

\* Connect(); start is the result of pigpio_start.
Connect(st, start, e, parked, rd) ==
    IF start < 0
    THEN Return([Enter(st, "Connect", "NONE") EXCEPT !.limitMsg = 0, !.snap.run = 0], "false")
    ELSE ConnectStarted([Enter(st, "Connect", "NONE") EXCEPT !.limitMsg = 0, !.snap.run = 0],
                        e, parked, rd)

\* Disconnect().
Disconnect(st) == Return([Enter(st, "Disconnect", "NONE") EXCEPT !.isConnected = FALSE], "true")

\* ISNewSwitch for the Lock switch: actionName is the switch asked for.
ISNewSwitchLock(st, actionName, rd, lockRet, w1, w2) ==
    IF actionName = st.LockS THEN Return(Enter(st, "Lock", "NONE"), "same")
    ELSE Return(updateRoofStatus(
                    setRoofLock([Enter(st, "Lock", "NONE") EXCEPT !.LockS = actionName],
                                actionName = "LOCK_ENABLE", lockRet, w1, w2).st, rd), "true")

\* ISNewSwitch for the Aux switch.
ISNewSwitchAux(st, actionName, rd, lockRet, w1, w2) ==
    IF actionName = st.AuxS THEN Return(Enter(st, "Aux", "NONE"), "same")
    ELSE Return(updateRoofStatus(
                    setRoofAux([Enter(st, "Aux", "NONE") EXCEPT !.AuxS = actionName],
                               actionName = "AUX_ENABLE", lockRet, w1, w2).st, rd), "true")

\* ------------------------------------------------------------------ inputs
\* The readings of the four sensors: a mapped limit switch is drawn from R,
\* a mapped lock or auxiliary switch from RL; a sensor that is not mapped is
\* not read.
ReadChoices(roofSwitchId, R) == IF InpMapped(roofSwitchId) THEN R ELSE {0}

ReadingsOver(R, RL) ==
    [opened : ReadChoices(ROOF_OPENED_SWITCH, R), closed : ReadChoices(ROOF_CLOSED_SWITCH, R),
     locked : ReadChoices(ROOF_LOCKED_SWITCH, RL), aux : ReadChoices(ROOF_AUX_SWITCH, RL)]

\* The results of the calls of one gpioPinSet: all succeed, or the calls of
\* one kind fail.
GpioSetupResults ==
    {[mode |-> 0, pud |-> 0, write |-> 0], [mode |-> PI_OTHER_ERROR, pud |-> 0, write |-> 0],
     [mode |-> 0, pud |-> PI_OTHER_ERROR, write |-> 0],
     [mode |-> 0, pud |-> 0, write |-> PI_OTHER_ERROR]}

GpioSetupOk == {[mode |-> 0, pud |-> 0, write |-> 0]}

\* The log call of readRoofSwitch for a failed gpio_read passes the bool
\* roofClosing for a %s conversion: the call is undefined, it returns or it
\* ends the process.  Crashed(r) is the state when the first such call of the
\* handler that would end as r ends the process: the pins stay as they were
\* at the call and the driver is gone.
Crashed(r) ==
    [r EXCEPT !.running = FALSE, !.isConnected = FALSE, !.timers = <<>>,
              !.pinLevel = r.op.fault[1].pinLevel, !.writes = r.op.fault[1].writes,
              !.log = <<>>,
              !.op = [name |-> "crash", dir |-> "NONE", rc |-> "none",
                      actuate |-> "none", lock |-> "none", ret |-> "none",
                      status |-> FALSE, fault |-> r.op.fault, mount |-> FALSE, read |-> <<>>,
                       index |-> NoIndex]]

\* The states a handler that would end as r can end in.
Outcomes(r) == IF r.op.fault = <<>> THEN {r} ELSE {r, Crashed(r)}

\* An outcome of the handler becomes the next state, unless it arms more
\* than MaxTimers timers.
CommitBounded(r) ==
    \E o \in Outcomes(r) :
        /\ Len(o.timers) <= MaxTimers
        /\ Commit(o)

\* ----------------------------------------------------------------- actions
\* Rd: the readings of the four sensors drawn, RL: the readings of the lock
\* switch pushRoofButton draws, W: the gpio_write results drawn.
ConnectOver(Starts, Setups, Parks, Rd) ==
    /\ running
    /\ ~isConnected
    /\ \E start \in Starts, e \in Setups, parked \in Parks, rd \in Rd :
         CommitBounded(Connect(S, start, e, parked, rd))
    /\ UNCHANGED cfgVars

DisconnectAction ==
    /\ running
    /\ isConnected
    /\ Commit(Disconnect(S))
    /\ UNCHANGED cfgVars

TimerHitOver(Rd) ==
    /\ running
    /\ timers # <<>>
    /\ Head(timers) <= 0
    /\ \E rd \in Rd : CommitBounded(TimerHit(S, rd))
    /\ UNCHANGED cfgVars

\* Time passes by one poll period; a due timer is served at most MaxLate
\* periods late.
Elapse(ms) == IF ms + ACTIVE_POLL_MS > ElapsedCap THEN ElapsedCap ELSE ms + ACTIVE_POLL_MS

Advance(st) ==
    [Enter(st, "Advance", "NONE") EXCEPT
        !.timers = [k \in 1..Len(st.timers) |-> st.timers[k] - ACTIVE_POLL_MS],
        !.MotionStart = Elapse(@),
        !.sinceAccept = IF @ < 0 THEN @ ELSE Elapse(@)]

AdvanceAction ==
    /\ running
    /\ timers # <<>> => Head(timers) - ACTIVE_POLL_MS >= 0 - MaxLate * ACTIVE_POLL_MS
    /\ Commit(Advance(S))
    /\ UNCHANGED cfgVars

MoveOver(Dirs, Mounts, Rd, RL, W) ==
    /\ running
    /\ isConnected
    /\ \E dir \in Dirs, rd \in Rd, mountLocked \in Mounts,
          lk \in ReadChoices(ROOF_LOCKED_SWITCH, RL), w1 \in W, w2 \in W :
         CommitBounded(DomeMove(S, dir, "MOTION_START", rd, mountLocked, lk, w1, w2))
    /\ UNCHANGED cfgVars

ParkOver(Mounts, Rd, RL, W) ==
    /\ running
    /\ isConnected
    /\ \E rd \in Rd, mountLocked \in Mounts,
          lk \in ReadChoices(ROOF_LOCKED_SWITCH, RL), w1 \in W, w2 \in W :
         CommitBounded(Park(S, rd, mountLocked, lk, w1, w2))
    /\ UNCHANGED cfgVars

UnParkOver(Mounts, Rd, RL, W) ==
    /\ running
    /\ isConnected
    /\ \E rd \in Rd, mountLocked \in Mounts,
          lk \in ReadChoices(ROOF_LOCKED_SWITCH, RL), w1 \in W, w2 \in W :
         CommitBounded(UnPark(S, rd, mountLocked, lk, w1, w2))
    /\ UNCHANGED cfgVars

ReadOver(Ids, R) ==
    /\ running
    /\ isConnected
    /\ \E roofSwitchId \in Ids, retValue \in R :
         CommitBounded(ReadSwitch(S, roofSwitchId, retValue))
    /\ UNCHANGED cfgVars

AbortOver(Rd, RL, W) ==
    /\ running
    /\ isConnected
    /\ \E rd \in Rd, lk \in ReadChoices(ROOF_LOCKED_SWITCH, RL),
          w1 \in W, w2 \in W :
         CommitBounded(DomeAbort(S, rd, lk, w1, w2))
    /\ UNCHANGED cfgVars

LockOver(Rd, RL, W) ==
    /\ running
    /\ isConnected
    /\ \E actionName \in {"LOCK_ENABLE", "LOCK_DISABLE"}, rd \in Rd,
          lk \in ReadChoices(ROOF_LOCKED_SWITCH, RL), w1 \in W, w2 \in W :
         CommitBounded(ISNewSwitchLock(S, actionName, rd, lk, w1, w2))
    /\ UNCHANGED cfgVars

AuxOver(Rd, RL, W) ==
    /\ running
    /\ isConnected
    /\ \E actionName \in {"AUX_ENABLE", "AUX_DISABLE"}, rd \in Rd,
          lk \in ReadChoices(ROOF_LOCKED_SWITCH, RL), w1 \in W, w2 \in W :
         CommitBounded(ISNewSwitchAux(S, actionName, rd, lk, w1, w2))
    /\ UNCHANGED cfgVars

\* ------------------------------------------------------------ initial state
\* No configuration has been saved: the file holds no property.
NoConfigFile == <<>>

\* What an uninitialised unsigned field may hold: the three enumerators or
\* another value.
UninitValues == {EXPIRED_CLEAR, EXPIRED_OPEN, EXPIRED_CLOSE, 3}

\* The state after the constructor and initProperties.
InitDriver ==
    /\ contactEstablished = FALSE
    /\ roofOpening = FALSE
    /\ roofClosing = FALSE
    /\ MotionRequest = 0
    /\ MotionStart = ElapsedCap
    /\ fullyOpenedLimitSwitch = "ISS_OFF"
    /\ fullyClosedLimitSwitch = "ISS_OFF"
    /\ roofLockedSwitch = "ISS_OFF"
    /\ roofAuxiliarySwitch = "ISS_OFF"
    /\ roofTimedOut \in UninitValues
    /\ limitMsg = 0
    /\ communicationErrors = 0
    /\ RoofStatusL = AllIdle
    /\ RoofStatusLP = "IPS_BUSY"
    /\ LockS = "LOCK_DISABLE"
    /\ AuxS = "AUX_DISABLE"
    /\ running = TRUE
    /\ isConnected = FALSE
    /\ DomeMotionSP = "IPS_IDLE"
    /\ DomeMotionS = "NONE"
    /\ m_DomeState = "DOME_IDLE"
    /\ timers = <<>>
    /\ pinLevel = [p \in PinSet |-> 0]
    /\ pinMode = [p \in PinSet |-> "unset"]
    /\ op = [name |-> "init", dir |-> "NONE", rc |-> "none", actuate |-> "none",
             lock |-> "none", ret |-> "none", status |-> FALSE, fault |-> <<>>,
             mount |-> FALSE, read |-> <<>>,
                       index |-> NoIndex]
    /\ writes = <<>>
    /\ log = <<>>
    /\ snap = [openedState |-> FALSE, closedState |-> FALSE, lockedState |-> FALSE,
               auxiliaryState |-> FALSE, moving |-> FALSE, progress |-> FALSE, run |-> 0]
    /\ sinceAccept = 0 - 1
    /\ saved = NoConfigFile

\* The loaded GPIO definitions of the driver specification: OPEN, CLOSE,
\* ABORT and LOCK relays on output definitions 1..4, OPENED, CLOSED and
\* LOCKED switches on input definitions 1..3, the last definition of each
\* kind left as initProperties fills it; the functions of
\* unused are set to Unused.
InitConfig(unused, outActive, lockLimit) ==
    /\ outFunctionS = [i \in OutSlots |-> IF i = 5 THEN 0
                                          ELSE IF outOps[i] \in unused THEN 6 ELSE i]
    /\ outPinNumberN = [i \in OutSlots |-> <<5, 6, 13, 19, GPIO_PIN_INITIAL>>[i]]
    /\ outActivateWhenS = [i \in OutSlots |-> IF i = 5 THEN "None" ELSE outActive]
    /\ outActiveLimitS = [i \in OutSlots |-> <<1, 2, 3, lockLimit, 0>>[i]]
    /\ inpFunctionS = [i \in InpSlots |-> IF i = 4 THEN 0
                                          ELSE IF inpOps[i] \in unused THEN 5 ELSE i]
    /\ inpPinNumberN = [i \in InpSlots |-> <<17, 27, 22, GPIO_PIN_INITIAL>>[i]]
    /\ inpActivateWhenS = [i \in InpSlots |-> <<"High", "High", "Low", "None">>[i]]

\* ------------------------------------------------- the driver in operation
\* The roof without a lock switch on a healthy GPIO service: a read returns
\* a level, a call succeeds.  Time passes and the poll timers fire.
Init ==
    /\ InitDriver
    /\ InitConfig({ROOF_LOCKED_SWITCH}, "High", 4)
    /\ RoofTimeoutN \in ROOF_TIMEOUT_MIN..MaxTimeout

ConnectAction == ConnectOver({0}, GpioSetupOk, {FALSE}, ReadingsOver(Levels, Levels))
TimerHitAction == TimerHitOver(ReadingsOver(Levels, Levels))
MoveAction == MoveOver({"DOME_CW", "DOME_CCW"}, {FALSE}, ReadingsOver(Levels, Levels), Levels, {0})

Next ==
    \/ ConnectAction
    \/ DisconnectAction
    \/ TimerHitAction
    \/ AdvanceAction
    \/ MoveAction

Spec == Init /\ [][Next]_vars

\* ------------------------------------------------------- timeout of a session
\* C3: once the time since a session was accepted has reached the configured
\* timeout, with no abort requested, a poll tick that finds the session still
\* in progress ends it: both in-progress flags are clear and the motion is no
\* longer busy after the tick, and when the limit switch of the session is
\* not active at that tick the recorded timeout is that of its direction.
\* A counterexample is a tick after which the session is still in progress.
C3_TimeoutEndsSession ==
    [][(/\ op'.name = "TimerHit" /\ op'.rc = "rearmed"
        /\ sinceAccept >= RoofTimeoutN * 1000
        /\ (roofOpening \/ roofClosing))
       => (/\ ~roofOpening' /\ ~roofClosing'
           /\ DomeMotionSP' # "IPS_BUSY"
           /\ (roofOpening /\ ~snap'.openedState => roofTimedOut' = EXPIRED_OPEN)
           /\ (roofClosing /\ ~snap'.closedState => roofTimedOut' = EXPIRED_CLOSE))]_vars

\* ----------------------------------------------- throttle of the messages
\* The number of warnings of a run before its one error.
ThrottleN == LIMIT_MSG_WARN_MAX + 1

\* C7: in a run of status computations in a row that find the roof
\* stationary and neither opened nor closed, each of the first ThrottleN
\* computations logs one warning and no error, the next logs one error and no
\* warning, every later one logs neither; a computation that finds otherwise
\* logs neither and resets the counter, and a run counted from Connect starts
\* with warnings.
C7_IndeterminateThrottle ==
    op.status =>
        IF ~snap.openedState /\ ~snap.closedState /\ ~snap.moving
        THEN /\ snap.run >= 1
             /\ Count(log, "WARN_STATIONARY") = (IF snap.run <= ThrottleN THEN 1 ELSE 0)
             /\ Count(log, "ERROR_STATIONARY") = (IF snap.run = ThrottleN + 1 THEN 1 ELSE 0)
        ELSE /\ Count(log, "WARN_STATIONARY") = 0
             /\ Count(log, "ERROR_STATIONARY") = 0
             /\ limitMsg = 0

\* The silence after the error has been reached, and a reconnection has met
\* a counter that was not zero.
C7_Witness ==
    /\ op.status
    /\ ~snap.openedState /\ ~snap.closedState /\ ~snap.moving
    /\ snap.run = ThrottleN + 2
    /\ log = <<>>

\* ------------------------------------------------ the roof with a lock
\* The requests of the client on a roof with a lock switch and a lock relay,
\* between two polls; a sensor read returns a level or fails.
SensorResults == {0, 1, PI_BAD_GPIO}

InitLock ==
    /\ InitDriver
    /\ InitConfig({}, "High", 4)
    /\ RoofTimeoutN = ROOF_TIMEOUT_MIN

LockConnect == ConnectOver({0}, GpioSetupOk, {FALSE}, ReadingsOver(Levels, SensorResults))
LockMove == MoveOver({"DOME_CW", "DOME_CCW"}, {FALSE}, ReadingsOver(Levels, SensorResults),
                     SensorResults, {0})
LockAbort == AbortOver(ReadingsOver(Levels, SensorResults), SensorResults, {0})

NextLock ==
    \/ LockConnect
    \/ LockMove
    \/ LockAbort

SpecLock == InitLock /\ [][NextLock]_vars

\* ------------------------------------------------------- the lock interlock
\* C4: when a push of the open, close or abort button reads the lock switch
\* and the read fails or finds the lock on, the push fails and the handler
\* writes no pin; so a handler that wrote a pin for one of these buttons read
\* the lock switch as off.
C4_LockInterlock ==
    op.actuate \in MoveFunctions =>
        /\ op.lock \in {"failed", "active"} => op.ret = "false" /\ writes = <<>>
        /\ writes # <<>> => op.lock = "inactive"

\* A move request whose refresh read the lock as off and whose push read it
\* as on.
C4_Witness ==
    /\ op.name = "Move" /\ op.actuate = ROOF_OPEN_RELAY
    /\ ~snap.lockedState /\ op.lock = "active"
    /\ op.rc = "IPS_ALERT"

\* ------------------------------------------------- re-entrant move requests
\* What Move leaves alone when it is a no-op.
MoveFrame ==
    /\ roofOpening' = roofOpening /\ roofClosing' = roofClosing
    /\ MotionStart' = MotionStart /\ MotionRequest' = MotionRequest
    /\ roofTimedOut' = roofTimedOut
    /\ timers' = timers

NoActuation == op'.actuate = "none" /\ writes' = <<>>

\* C5 as stated: a move request that Move receives while a session is in
\* progress after its status refresh returns "already in progress" (IPS_OK),
\* pushes no button, writes no pin and leaves the in-progress flags, the
\* session start, the requested timeout and the recorded timeout unchanged.
C5_ReentrantMoveAsStated ==
    [][(op'.name = "Move" /\ op'.rc # "refused" /\ snap'.progress)
       => (op'.rc = "IPS_OK" /\ NoActuation /\ MoveFrame)]_vars

\* C5, amended: the same when the lock state held after the refresh is off;
\* with the lock state on the request is as much a no-op but returns
\* IPS_ALERT.
C5_ReentrantMove ==
    [][(op'.name = "Move" /\ op'.rc # "refused" /\ snap'.progress)
       => (/\ NoActuation /\ MoveFrame
           /\ op'.rc = (IF roofLockedSwitch' = "ISS_ON" THEN "IPS_ALERT" ELSE "IPS_OK"))]_vars

\* An open request received while a closing session is in progress.
C5_Witness ==
    /\ op.name = "Move" /\ op.dir = "DOME_CW" /\ op.rc = "IPS_OK"
    /\ snap.progress /\ roofClosing
    /\ roofLockedSwitch = "ISS_OFF"

\* ---------------------------------------------------------------- abort
\* C6: an abort request that finds a session in progress after its status
\* refresh clears both in-progress flags, marks the requested timeout as
\* cancelled (-1) and pushes the abort button once; it writes no pin when no
\* abort relay is defined.  Stated for the requests that find the lock
\* switch off: with the lock on the driver takes no action on an abort.
C6_AbortClearsSession ==
    [][(op'.name = "Abort" /\ snap'.progress /\ roofLockedSwitch' = "ISS_OFF")
       => (/\ ~roofOpening' /\ ~roofClosing'
           /\ MotionRequest' = 0 - 1
           /\ op'.actuate = ROOF_ABORT_RELAY
           /\ (~OutMapped(ROOF_ABORT_RELAY) => writes' = <<>>))]_vars

\* ------------------------------------------------------ status computation
NoAlert == \A l \in Lights : RoofStatusL[l] # "IPS_ALERT"

\* C8: after a status computation that found the lock off and exactly one of
\* the opened and closed switches on, the light of that switch and the
\* summary are OK, no light is ALERT and the in-progress flag of that
\* direction is clear.
C8_ConfirmedTerminalState ==
    (op.status /\ ~snap.lockedState) =>
        /\ (snap.openedState /\ ~snap.closedState)
              => /\ RoofStatusL["ROOF_STATUS_OPENED"] = "IPS_OK"
                 /\ RoofStatusLP = "IPS_OK" /\ NoAlert /\ ~roofOpening
        /\ (snap.closedState /\ ~snap.openedState)
              => /\ RoofStatusL["ROOF_STATUS_CLOSED"] = "IPS_OK"
                 /\ RoofStatusLP = "IPS_OK" /\ NoAlert /\ ~roofClosing

\* A poll or request that found the opened switch on while opening.
C8_Witness ==
    /\ op.status /\ ~snap.lockedState
    /\ snap.openedState /\ ~snap.closedState
    /\ snap.moving /\ ~snap.progress

\* C9: a status computation that found the opened and the closed switch both
\* on logged the contradiction warning once, whatever the lock state and the
\* in-progress flags.
C9_ContradictionWarning ==
    (op.status /\ snap.openedState /\ snap.closedState)
        => Count(log, "WARN_OPENED_AND_CLOSED") = 1

\* Both switches on with the lock on during a session.
C9_Witness ==
    /\ op.status /\ snap.openedState /\ snap.closedState
    /\ snap.lockedState /\ snap.moving

\* ------------------------------------------------ incomplete definitions
\* The definitions of InitConfig without a lock switch, the OPEN relay on pin
\* openPin and output definition 5 set to the function extra (0: none
\* selected); with extra the OPEN relay, two definitions select OPEN.
InitConfigPins(unused, openPin, extra) ==
    /\ outFunctionS = [i \in OutSlots |-> IF i = 5 THEN extra
                                          ELSE IF outOps[i] \in unused THEN 6 ELSE i]
    /\ outPinNumberN = [i \in OutSlots |-> <<openPin, 6, 13, 19, IF extra = 0 THEN GPIO_PIN_INITIAL ELSE 12>>[i]]
    /\ outActivateWhenS = [i \in OutSlots |-> IF i = 5 /\ extra = 0 THEN "None" ELSE "High"]
    /\ outActiveLimitS = [i \in OutSlots |-> <<1, 2, 3, 4, IF extra = 0 THEN 0 ELSE 1>>[i]]
    /\ inpFunctionS = [i \in InpSlots |-> IF i = 4 THEN 0
                                          ELSE IF inpOps[i] \in unused \/ i = 3 THEN 5 ELSE i]
    /\ inpPinNumberN = [i \in InpSlots |-> <<17, 27, 22, GPIO_PIN_INITIAL>>[i]]
    /\ inpActivateWhenS = [i \in InpSlots |-> <<"High", "High", "Low", "None">>[i]]

Mandatory == {ROOF_OPEN_RELAY, ROOF_CLOSE_RELAY, ROOF_OPENED_SWITCH, ROOF_CLOSED_SWITCH}

InitPins ==
    /\ InitDriver
    /\ \E unused \in {{}} \cup {{f} : f \in Mandatory}, openPin \in {GPIO_PIN_MIN, 5},
          extra \in {0, 1} :
         InitConfigPins(unused, openPin, extra)
    /\ RoofTimeoutN = ROOF_TIMEOUT_MIN

PinsConnect == ConnectOver({0}, GpioSetupResults, {FALSE}, ReadingsOver(Levels, Levels))
PinsMove == MoveOver({"DOME_CW", "DOME_CCW"}, {FALSE}, ReadingsOver(Levels, Levels), Levels, {0})

NextPins ==
    \/ PinsConnect
    \/ DisconnectAction
    \/ PinsMove

SpecPins == InitPins /\ [][NextPins]_vars

AllMandatoryMapped ==
    /\ OutMapped(ROOF_OPEN_RELAY) /\ OutMapped(ROOF_CLOSE_RELAY)
    /\ InpMapped(ROOF_OPENED_SWITCH) /\ InpMapped(ROOF_CLOSED_SWITCH)

\* C1: with a mandatory function not mapped, a move request that Move
\* receives returns IPS_ALERT, creates no session and writes no pin.
C1_IncompleteMoveFails ==
    (op.name = "Move" /\ op.rc # "refused" /\ ~AllMandatoryMapped)
        => (op.rc = "IPS_ALERT" /\ writes = <<>> /\ ~roofOpening /\ ~roofClosing)

\* C10: gpioPinSet at Connect logs the definitions error if and only if a
\* mandatory function is not mapped.
C10_DefinitionsError ==
    op.name = "Connect"
        => (Count(log, "ERROR_GPIO_DEFINITIONS") > 0 <=> ~AllMandatoryMapped)

\* ------------------------------------------------------ pulsed actuation
\* The requests of the client that push a button, for each polarity of the
\* relays and each active limit of the LOCK relay; the writes succeed.
InitActuator ==
    /\ InitDriver
    /\ \E outActive \in {"High", "Low"}, lockLimit \in 1..MAX_OUT_ACTIVE_LIMIT :
         InitConfig({}, outActive, lockLimit)
    /\ RoofTimeoutN = ROOF_TIMEOUT_MIN

\* The readings of a roof at rest: closed or opened, and not locked (the lock
\* switch is active low).
RestReadings ==
    {[opened |-> 0, closed |-> 1, locked |-> 1, aux |-> 0],
     [opened |-> 1, closed |-> 0, locked |-> 1, aux |-> 0]}

ActuatorConnect == ConnectOver({0}, GpioSetupOk, {FALSE}, RestReadings)
ActuatorMove == MoveOver({"DOME_CW", "DOME_CCW"}, {FALSE}, RestReadings, {1}, {0})
ActuatorLock == LockOver(RestReadings, {1}, {0})
ActuatorAux == AuxOver(RestReadings, {1}, {0})

NextActuator ==
    \/ ActuatorConnect
    \/ ActuatorMove
    \/ ActuatorLock
    \/ ActuatorAux

SpecActuator == InitActuator /\ [][NextActuator]_vars

\* The output definition pushRoofButton used for the button it pushed.
PushedSlot == Min({i \in OutSlots : OutSelected(i, op.actuate)})

\* C2: after a push that succeeded on a definition with an active limit of
\* 100, 250, 500 or 750 ms, the pin is at its rest level: 0 for a relay that
\* is active high, 1 for one that is active low, whether the push was to
\* switch on or off.
C2_PulseEndsAtRest ==
    (/\ op.ret = "true" /\ OutMapped(op.actuate)
     /\ outActiveLimitS[PushedSlot] # 0
     /\ activeLimitMilli[outActiveLimitS[PushedSlot]] > 0
     /\ outActivateWhenS[PushedSlot] \in {"High", "Low"})
        => pinLevel[outPinNumberN[PushedSlot]] =
              (IF outActivateWhenS[PushedSlot] = "High" THEN 0 ELSE 1)

\* ------------------------------------------------ the definitions are edited
\* The names of the definition properties: the name of the vector of
\* initProperties with the number of the definition.
outFunctionName == <<"OUTRELAY1", "OUTRELAY2", "OUTRELAY3", "OUTRELAY4", "OUTRELAY5">>
outPinName == <<"OUTGPIO1", "OUTGPIO2", "OUTGPIO3", "OUTGPIO4", "OUTGPIO5">>
outActiveName == <<"OUTACT1", "OUTACT2", "OUTACT3", "OUTACT4", "OUTACT5">>
outLimitName == <<"OUTLIMIT1", "OUTLIMIT2", "OUTLIMIT3", "OUTLIMIT4", "OUTLIMIT5">>
inpFunctionName == <<"INPSWITCH1", "INPSWITCH2", "INPSWITCH3", "INPSWITCH4">>
inpPinName == <<"INPGPIO1", "INPGPIO2", "INPGPIO3", "INPGPIO4">>
inpActiveName == <<"INPACT1", "INPACT2", "INPACT3", "INPACT4">>
\* The name of the vector RoofTimeoutNP and the name of its one number.
RoofTimeoutNPName == "ROOF_MOVEMENT"
RoofTimeoutNName == "ROOF_TIMEOUT"
\* The value initProperties fills the timeout with.
ROOF_TIMEOUT_INITIAL == 15

\* The definition properties and the timeout as one record.
Cfg == [outFunctionS |-> outFunctionS, outPinNumberN |-> outPinNumberN,
        outActivateWhenS |-> outActivateWhenS, outActiveLimitS |-> outActiveLimitS,
        inpFunctionS |-> inpFunctionS, inpPinNumberN |-> inpPinNumberN,
        inpActivateWhenS |-> inpActivateWhenS, RoofTimeoutN |-> RoofTimeoutN]

CommitCfg(c) ==
    /\ outFunctionS' = c.outFunctionS
    /\ outPinNumberN' = c.outPinNumberN
    /\ outActivateWhenS' = c.outActivateWhenS
    /\ outActiveLimitS' = c.outActiveLimitS
    /\ inpFunctionS' = c.inpFunctionS
    /\ inpPinNumberN' = c.inpPinNumberN
    /\ inpActivateWhenS' = c.inpActivateWhenS
    /\ RoofTimeoutN' = c.RoofTimeoutN

\* The definition whose property has the name, 0 when none has.
SlotNamed(names, name) ==
    IF \E i \in DOMAIN names : names[i] = name
    THEN CHOOSE i \in DOMAIN names : names[i] = name
    ELSE 0

\* IUUpdateSwitch of a one-of-many vector: on holds the switches the request
\* sets ON.  A request with not exactly one switch ON is refused and the
\* vector keeps its state.
IUUpdateSwitch(cur, on) ==
    IF Cardinality(on) = 1 THEN CHOOSE j \in on : TRUE ELSE cur

\* IUUpdateNumber of a vector of one number: a value out of the range of the
\* number is refused.
IUUpdateNumber(cur, value, min, max) ==
    IF value < min \/ value > max THEN cur ELSE value

\* ISNewSwitch for the definition properties: the first property of the
\* name, in the order of the two loops; another name is left to INDI::Dome.
ISNewSwitchDefinition(c, name, on) ==
    IF SlotNamed(outFunctionName, name) # 0
    THEN [c EXCEPT !.outFunctionS[SlotNamed(outFunctionName, name)] = IUUpdateSwitch(@, on)]
    ELSE IF SlotNamed(outActiveName, name) # 0
    THEN [c EXCEPT !.outActivateWhenS[SlotNamed(outActiveName, name)] =
                       IUUpdateSwitch(@, on)]
    ELSE IF SlotNamed(outLimitName, name) # 0
    THEN [c EXCEPT !.outActiveLimitS[SlotNamed(outLimitName, name)] = IUUpdateSwitch(@, on)]
    ELSE IF SlotNamed(inpFunctionName, name) # 0
    THEN [c EXCEPT !.inpFunctionS[SlotNamed(inpFunctionName, name)] = IUUpdateSwitch(@, on)]
    ELSE IF SlotNamed(inpActiveName, name) # 0
    THEN [c EXCEPT !.inpActivateWhenS[SlotNamed(inpActiveName, name)] =
                       IUUpdateSwitch(@, on)]
    ELSE c

\* ISNewNumber: the timeout, then the pin numbers of the definitions.
ISNewNumber(c, name, value) ==
    IF name = RoofTimeoutNPName
    THEN [c EXCEPT !.RoofTimeoutN = IUUpdateNumber(@, value, ROOF_TIMEOUT_MIN, ROOF_TIMEOUT_MAX)]
    ELSE IF SlotNamed(outPinName, name) # 0
    THEN [c EXCEPT !.outPinNumberN[SlotNamed(outPinName, name)] =
                       IUUpdateNumber(@, value, GPIO_PIN_MIN, GPIO_PIN_MAX)]
    ELSE IF SlotNamed(inpPinName, name) # 0
    THEN [c EXCEPT !.inpPinNumberN[SlotNamed(inpPinName, name)] =
                       IUUpdateNumber(@, value, GPIO_PIN_MIN, GPIO_PIN_MAX)]
    ELSE c

\* The client sets a switch property: one of the requests of Requests, each
\* a property name and the set of its switches to turn ON.
NewSwitchOver(Requests) ==
    /\ running
    /\ \E q \in Requests : CommitCfg(ISNewSwitchDefinition(Cfg, q.name, q.on))
    /\ Commit(Return(Enter(S, "ISNewSwitch", "NONE"), "true"))
    /\ UNCHANGED saved

\* Pass i of the loop of ISNewNumber, counted from 0 as in the source,
\* returns: the name is that of outPinNumberNP[i] or of inpPinNumberNP[i].
NumberPassReturns(name, i) ==
    \/ outPinName[i + 1] = name
    \/ i + 1 \in DOMAIN inpPinName /\ inpPinName[i + 1] = name

\* Pass i is run: the name is not that of the timeout and no pass before it
\* returned.
NumberPassRun(name, i) ==
    /\ name # RoofTimeoutNPName
    /\ \A k \in 0..(i - 1) : ~NumberPassReturns(name, k)

\* The indices ISNewNumber uses on outPinNumberNP and on inpPinNumberNP for
\* a name: a pass compares the name of outPinNumberNP[i] and, when that is
\* another name, the name of inpPinNumberNP[i]; i runs to MAX_OUT_DEFS - 1.
NumberIndices(name) ==
    [out |-> {i \in 0..(MAX_OUT_DEFS - 1) : NumberPassRun(name, i)},
     inp |-> {i \in 0..(MAX_OUT_DEFS - 1) :
                 NumberPassRun(name, i) /\ outPinName[i + 1] # name}]

\* ISNewNumber as an operation of the driver.
NumberRequest(st, name) ==
    [Return(Enter(st, "ISNewNumber", "NONE"), "true") EXCEPT !.op.index = NumberIndices(name)]

\* A read of inpPinNumberNP past its last element is undefined: the handler
\* goes on with INDI::Dome::ISNewNumber or the process ends.
NumberOutcomes(r) ==
    IF \A i \in r.op.index.inp : i < MAX_INP_DEFS THEN {r}
    ELSE {r, [r EXCEPT !.running = FALSE, !.isConnected = FALSE, !.timers = <<>>,
                       !.op.name = "crash", !.op.rc = "none"]}

\* The client sets a number property.
NewNumberOver(Requests) ==
    /\ running
    /\ \E q \in Requests :
         /\ CommitCfg(ISNewNumber(Cfg, q.name, q.value))
         /\ \E o \in NumberOutcomes(NumberRequest(S, q.name)) : Commit(o)
    /\ UNCHANGED saved

\* ------------------------------------------- the definitions in operation
\* The client edits the definitions of a roof without a lock switch, before
\* and after it connects: the function of the last output and of the last
\* input definition and the pin of the last output definition.
InitDefs ==
    /\ InitDriver
    /\ InitConfig({ROOF_LOCKED_SWITCH}, "High", 4)
    /\ RoofTimeoutN = ROOF_TIMEOUT_MIN

DefsNewSwitch ==
    NewSwitchOver({[name |-> "OUTRELAY5", on |-> {1}], [name |-> "OUTRELAY5", on |-> {1, 2}],
                   [name |-> "INPSWITCH4", on |-> {1}]})
DefsNewNumber ==
    NewNumberOver({[name |-> "OUTGPIO5", value |-> 12],
                   [name |-> "OUTGPIO5", value |-> GPIO_PIN_MAX + 1]})
DefsConnect == ConnectOver({0}, GpioSetupOk, {FALSE}, ReadingsOver(Levels, Levels))
DefsMove == MoveOver({"DOME_CW", "DOME_CCW"}, {FALSE}, ReadingsOver(Levels, Levels), Levels, {0})

NextDefs ==
    \/ DefsNewSwitch
    \/ DefsNewNumber
    \/ DefsConnect
    \/ DisconnectAction
    \/ DefsMove

SpecDefs == InitDefs /\ [][NextDefs]_vars

\* No two output definitions select the same function and no two input
\* definitions do.
UniqueFunctions ==
    /\ \A i, k \in OutSlots :
          (OutDefined(i) /\ OutDefined(k) /\ outFunctionS[i] = outFunctionS[k]) => i = k
    /\ \A i, k \in InpSlots :
          (InpDefined(i) /\ InpDefined(k) /\ inpFunctionS[i] = inpFunctionS[k]) => i = k

\* C11: definitions in which two output definitions, or two input
\* definitions, select the same function are rejected when they are
\* validated (gpioPinSet at Connect logs its error), and a request that reads
\* the sensors or writes a pin finds no such definitions.
C11_OneSlotPerFunction ==
    /\ (op.name = "Connect" /\ op.rc = "true" /\ ~UniqueFunctions)
          => Count(log, "ERROR_GPIO_DEFINITIONS") > 0
    /\ (op.name = "Move" /\ op.status) => UniqueFunctions

\* ------------------------------------------------- communication errors
\* The handler of the step made a pin operation that failed: a gpio_read
\* that returned PI_BAD_GPIO or a gpio_write that returned an error.
PinOperationFailed ==
    \/ op'.fault # <<>>
    \/ \E k \in DOMAIN writes' : writes'[k].err # 0

\* C12: every handler that made a pin operation that failed, and returned,
\* leaves the communication-error counter larger than it found it; the
\* teardown of the poll tick depends on the counter passing
\* MAX_CNTRL_COM_ERR this way.
C12_FailedOperationsCounted ==
    [][(PinOperationFailed /\ op'.name # "crash")
       => communicationErrors' > communicationErrors]_vars

\* ------------------------------------------- requests at a limit switch
\* A move request that Move received with no session in progress after its
\* status refresh, for the direction whose limit switch the refresh read on.
AtLimitRequest(dir) ==
    /\ op'.name = "Move" /\ op'.rc # "refused" /\ op'.dir = dir
    /\ ~snap'.progress
    /\ IF dir = "DOME_CW" THEN snap'.openedState ELSE snap'.closedState

\* The request is rejected and the dome state is forced to state.
RejectedAs(state) ==
    /\ op'.rc = "IPS_ALERT" /\ NoActuation
    /\ ~roofOpening' /\ ~roofClosing'
    /\ m_DomeState' = state

\* C13 as stated: an open request with no session in progress and the opened
\* switch on is rejected, pushes no button, writes no pin, creates no session
\* and forces the dome state to unparked; a close request with the closed
\* switch on likewise forces it to parked.
C13_AtLimitRejectedAsStated ==
    [][/\ AtLimitRequest("DOME_CW") => RejectedAs("DOME_UNPARKED")
       /\ AtLimitRequest("DOME_CCW") => RejectedAs("DOME_PARKED")]_vars

\* C13, amended: the same for the requests that find the lock state held
\* after the refresh off; with the lock on the request is rejected as well
\* but the dome state is not forced.
C13_AtLimitRejected ==
    [][roofLockedSwitch' = "ISS_OFF"
       => /\ AtLimitRequest("DOME_CW") => RejectedAs("DOME_UNPARKED")
          /\ AtLimitRequest("DOME_CCW") => RejectedAs("DOME_PARKED")]_vars

\* An open request rejected at the opened switch with the lock off.
C13_Witness ==
    /\ op.name = "Move" /\ op.dir = "DOME_CW" /\ op.rc = "IPS_ALERT"
    /\ ~snap.progress /\ snap.openedState /\ ~snap.closedState
    /\ roofLockedSwitch = "ISS_OFF"
    /\ m_DomeState = "DOME_UNPARKED"

\* ------------------------------------------------------ interlocked requests
\* The requests of the client on a roof with a lock switch while the mount
\* may be locking the dome (the telescope parking policy); the reads return
\* a level.
MountConnect == ConnectOver({0}, GpioSetupOk, {FALSE}, ReadingsOver(Levels, Levels))
MountMove == MoveOver({"DOME_CW", "DOME_CCW"}, {FALSE, TRUE}, ReadingsOver(Levels, Levels),
                      Levels, {0})

NextMount ==
    \/ MountConnect
    \/ DisconnectAction
    \/ MountMove

SpecMount == InitLock /\ [][NextMount]_vars

\* The request leaves the pins and the session alone and fails.
RejectedWithoutEffect == op'.rc = "IPS_ALERT" /\ writes' = <<>> /\ MoveFrame

\* C14 as stated: a move request that Move receives while the lock switch
\* reads on, or a close request it receives while the mount is locking,
\* returns IPS_ALERT, writes no pin and leaves the in-progress flags, the
\* requested timeout, the session start and the recorded timeout unchanged.
C14_InterlockedRejectedAsStated ==
    [][(/\ op'.name = "Move" /\ op'.rc # "refused"
        /\ snap'.lockedState \/ (op'.dir = "DOME_CCW" /\ op'.mount))
       => RejectedWithoutEffect]_vars

\* C14, amended: the same, the close request with the mount locking being
\* one made with no session in progress.
C14_InterlockedRejected ==
    [][(/\ op'.name = "Move" /\ op'.rc # "refused"
        /\ \/ snap'.lockedState
           \/ op'.dir = "DOME_CCW" /\ op'.mount /\ ~roofOpening /\ ~roofClosing)
       => RejectedWithoutEffect]_vars

\* A close request rejected for the mount alone: the roof is not closed, not
\* locked and not moving.
C14_Witness ==
    /\ op.name = "Move" /\ op.dir = "DOME_CCW" /\ op.mount /\ op.rc = "IPS_ALERT"
    /\ ~snap.lockedState /\ ~snap.closedState /\ ~snap.moving
    /\ roofLockedSwitch = "ISS_OFF" /\ fullyClosedLimitSwitch = "ISS_OFF"

\* ------------------------------------------------ the poll tick of a session
\* A poll tick that ran with the session of the direction in progress.
SessionTick(dir) ==
    /\ op'.name = "TimerHit" /\ op'.rc = "rearmed"
    /\ sinceAccept >= 0
    /\ IF dir = "DOME_CW" THEN roofOpening ELSE roofClosing

\* The time since the request was accepted has reached the timeout.
TimeoutElapsed == sinceAccept >= RoofTimeoutN * 1000

\* C15: a poll tick of an opening session that reads the opened switch on
\* completes the session as unparked, also when the timeout has elapsed; one
\* that reads it off ends the session with the timeout of its direction when
\* the timeout has elapsed and leaves it opening otherwise, and does not make
\* the dome unparked.  Likewise for a closing session, the closed switch and
\* parked.
C15_TickOfSession ==
    [][/\ SessionTick("DOME_CW")
          => IF snap'.openedState
             THEN m_DomeState' = "DOME_UNPARKED"
             ELSE /\ IF TimeoutElapsed
                     THEN ~roofOpening' /\ roofTimedOut' = EXPIRED_OPEN
                     ELSE roofOpening'
                  /\ m_DomeState' = "DOME_UNPARKED" => m_DomeState = "DOME_UNPARKED"
       /\ SessionTick("DOME_CCW")
          => IF snap'.closedState
             THEN m_DomeState' = "DOME_PARKED"
             ELSE /\ IF TimeoutElapsed
                     THEN ~roofClosing' /\ roofTimedOut' = EXPIRED_CLOSE
                     ELSE roofClosing'
                  /\ m_DomeState' = "DOME_PARKED" => m_DomeState = "DOME_PARKED"]_vars

\* ------------------------------------------- both limit switches reading on
\* A move request that Move received with both limit switches read on, the
\* lock off and no session in progress after its status refresh.
ContradictionRequest ==
    /\ op'.name = "Move" /\ op'.rc # "refused"
    /\ snap'.openedState /\ snap'.closedState /\ ~snap'.lockedState
    /\ ~snap'.progress

\* C16 as stated: with both limit switches on, the lock off and no session
\* in progress a move request is accepted and pushes the button of its
\* direction.
C16_ContradictionAcceptedAsStated ==
    [][ContradictionRequest
       => (op'.rc = "IPS_BUSY" /\ op'.actuate # "none")]_vars

\* C16, amended: such a request gets the warning of the status refresh and is
\* rejected for the limit switch of its own direction: it fails, pushes no
\* button, writes no pin and starts no session.
C16_ContradictionRejected ==
    [][ContradictionRequest
       => /\ Count(log', "WARN_OPENED_AND_CLOSED") = 1
          /\ op'.rc = "IPS_ALERT" /\ NoActuation
          /\ ~roofOpening' /\ ~roofClosing']_vars

\* A close request rejected with both limit switches on and the lock off.
C16_Witness ==
    /\ op.name = "Move" /\ op.dir = "DOME_CCW" /\ op.rc = "IPS_ALERT"
    /\ snap.openedState /\ snap.closedState /\ ~snap.lockedState
    /\ ~snap.progress
    /\ Count(log, "WARN_OPENED_AND_CLOSED") = 1

\* ------------------------------------------------------------ park and unpark
\* The client asks for motion and for parking on a roof with a lock switch,
\* the mount locking or not when it asks to park; the reads return a level.
ParkConnect == ConnectOver({0}, GpioSetupOk, {FALSE}, ReadingsOver(Levels, Levels))
ParkMove == MoveOver({"DOME_CW", "DOME_CCW"}, {FALSE}, ReadingsOver(Levels, Levels),
                     Levels, {0})
ParkAction == ParkOver({FALSE, TRUE}, ReadingsOver(Levels, Levels), Levels, {0})
UnParkAction == UnParkOver({FALSE}, ReadingsOver(Levels, Levels), Levels, {0})

NextPark ==
    \/ ParkConnect
    \/ DisconnectAction
    \/ ParkMove
    \/ ParkAction
    \/ UnParkAction

SpecPark == InitLock /\ [][NextPark]_vars

\* The step is one of Park (label "Park", direction DOME_CCW) or of UnPark.
ParkStep(label) == op'.name = label /\ op'.rc # "none"

\* The step leaves the driver as the move request m does, the name and the
\* return value of the operation apart.
ActsAs(m) ==
    /\ Commit([m EXCEPT !.op = op'])
    /\ [op' EXCEPT !.name = "Move", !.rc = m.op.rc] = m.op

\* The level that the step read on the switch for the state it found.
LevelRead(roofSwitchId, state) ==
    IF ~InpMapped(roofSwitchId) THEN 0
    ELSE CHOOSE l \in Levels : InpActive(InpSlotOf(roofSwitchId), l) = state

\* The readings rd, the reading lk of the lock switch at the push of the
\* button and the mount policy mt are the ones of the step.
ReadByStep(rd, lk, mt) ==
    /\ rd.opened = LevelRead(ROOF_OPENED_SWITCH, snap'.openedState)
    /\ rd.closed = LevelRead(ROOF_CLOSED_SWITCH, snap'.closedState)
    /\ rd.locked = LevelRead(ROOF_LOCKED_SWITCH, snap'.lockedState)
    /\ rd.aux = LevelRead(ROOF_AUX_SWITCH, snap'.auxiliaryState)
    /\ lk = LevelRead(ROOF_LOCKED_SWITCH, op'.lock = "active")
    /\ mt = op'.mount

\* The step does what the move request m does and answers as claimed: busy
\* when m is busy, alert when m is alert.
SameVerdict(m) ==
    /\ ActsAs(m)
    /\ op'.rc = "IPS_BUSY" <=> DomeMoveResult(m) = "IPS_BUSY"
    /\ op'.rc = "IPS_ALERT" <=> DomeMoveResult(m) = "IPS_ALERT"

\* The step does what the move request m does and answers busy when m is
\* busy, alert otherwise.
BusyOrAlert(m) ==
    /\ ActsAs(m)
    /\ op'.rc = (IF DomeMoveResult(m) = "IPS_BUSY" THEN "IPS_BUSY" ELSE "IPS_ALERT")

\* C17 as stated: Park does what a close request does and UnPark what an
\* open request does to the pins and to the session, and each is accepted
\* (busy) and rejected (alert) in the cases the request is.
C17_ParkIsMoveAsStated ==
    [][/\ ParkStep("Park")
          => \E rd \in ReadingsOver(Levels, Levels), lk \in Levels, mt \in BOOLEAN :
                /\ ReadByStep(rd, lk, mt)
                /\ SameVerdict(DomeMove(S, "DOME_CCW", "MOTION_START", rd, mt, lk, 0, 0))
       /\ ParkStep("UnPark")
          => \E rd \in ReadingsOver(Levels, Levels), lk \in Levels, mt \in BOOLEAN :
                /\ ReadByStep(rd, lk, mt)
                /\ SameVerdict(DomeMove(S, "DOME_CW", "MOTION_START", rd, mt, lk, 0, 0))]_vars

\* C17, amended: Park does what a close request does and UnPark what an open
\* request does to the pins and to the session; each returns busy when the
\* request returns busy and alert in every other case, the request answered
\* "already in progress" included.
C17_ParkIsMove ==
    [][/\ ParkStep("Park")
          => \E rd \in ReadingsOver(Levels, Levels), lk \in Levels, mt \in BOOLEAN :
                /\ ReadByStep(rd, lk, mt)
                /\ BusyOrAlert(DomeMove(S, "DOME_CCW", "MOTION_START", rd, mt, lk, 0, 0))
       /\ ParkStep("UnPark")
          => \E rd \in ReadingsOver(Levels, Levels), lk \in Levels, mt \in BOOLEAN :
                /\ ReadByStep(rd, lk, mt)
                /\ BusyOrAlert(DomeMove(S, "DOME_CW", "MOTION_START", rd, mt, lk, 0, 0))]_vars

\* Park called while the roof is opening: the session is left alone and the
\* call fails.
C17_Witness ==
    /\ op.name = "Park" /\ op.rc = "IPS_ALERT"
    /\ roofOpening /\ DomeMotionSP = "IPS_OK"
    /\ writes = <<>>

\* ------------------------------------------------------------ the poll cadence
\* The period of the poll that suits the driver after the step: the active
\* one while a session is in progress, the inactive one otherwise.
SuitedPeriod == IF roofOpening' \/ roofClosing' THEN ACTIVE_POLL_MS ELSE INACTIVE_TIMING

\* C18: the timer that Connect arms when contact is established runs for
\* the initial period; a timer that a poll tick or a move request arms runs
\* for the active period when a session is in progress after the step and
\* for the inactive period when none is.
C18_PollCadence ==
    [][/\ (op'.name = "Connect" /\ op'.rc = "true")
          => timers' = InsertSorted(timers, INITIAL_TIMING)
       /\ (op'.name = "TimerHit" /\ op'.rc = "rearmed")
          => timers' = InsertSorted(Tail(timers), SuitedPeriod)
       /\ (op'.name = "Move" /\ timers' # timers)
          => timers' = InsertSorted(timers, SuitedPeriod)]_vars

\* ------------------------------------------- the configuration file
\* The definition properties and the timeout as initProperties fills them:
\* no switch on, the pin numbers 0, the timeout 15.
DefaultCfg ==
    [outFunctionS |-> [i \in OutSlots |-> 0],
     outPinNumberN |-> [i \in OutSlots |-> GPIO_PIN_INITIAL],
     outActivateWhenS |-> [i \in OutSlots |-> "None"],
     outActiveLimitS |-> [i \in OutSlots |-> 0],
     inpFunctionS |-> [i \in InpSlots |-> 0],
     inpPinNumberN |-> [i \in InpSlots |-> GPIO_PIN_INITIAL],
     inpActivateWhenS |-> [i \in InpSlots |-> "None"],
     RoofTimeoutN |-> ROOF_TIMEOUT_INITIAL]

\* The driver's fields after the constructor and initProperties; rt is what
\* the field roofTimedOut holds.
ConstructedDriver(rt) ==
    [contactEstablished |-> FALSE, roofOpening |-> FALSE, roofClosing |-> FALSE,
     MotionRequest |-> 0, MotionStart |-> ElapsedCap,
     fullyOpenedLimitSwitch |-> "ISS_OFF", fullyClosedLimitSwitch |-> "ISS_OFF",
     roofLockedSwitch |-> "ISS_OFF", roofAuxiliarySwitch |-> "ISS_OFF",
     roofTimedOut |-> rt, limitMsg |-> 0, communicationErrors |-> 0,
     RoofStatusL |-> AllIdle, RoofStatusLP |-> "IPS_BUSY",
     LockS |-> "LOCK_DISABLE", AuxS |-> "AUX_DISABLE", running |-> TRUE,
     isConnected |-> FALSE, DomeMotionSP |-> "IPS_IDLE", DomeMotionS |-> "NONE",
     m_DomeState |-> "DOME_IDLE", timers |-> <<>>,
     pinLevel |-> [p \in PinSet |-> 0], pinMode |-> [p \in PinSet |-> "unset"],
     op |-> [name |-> "init", dir |-> "NONE", rc |-> "none", actuate |-> "none",
             lock |-> "none", ret |-> "none", status |-> FALSE, fault |-> <<>>,
             mount |-> FALSE, read |-> <<>>,
                       index |-> NoIndex],
     writes |-> <<>>, log |-> <<>>,
     snap |-> [openedState |-> FALSE, closedState |-> FALSE, lockedState |-> FALSE,
               auxiliaryState |-> FALSE, moving |-> FALSE, progress |-> FALSE, run |-> 0],
     sinceAccept |-> 0 - 1]

Names(table) == {table[i] : i \in DOMAIN table}

\* The properties whose value is a number, and the ones with the two
\* switches High and Low.
NumberNames == {RoofTimeoutNPName} \cup Names(outPinName) \cup Names(inpPinName)
ActiveNames == Names(outActiveName) \cup Names(inpActiveName)

\* The properties saveConfigItems writes, each under the name of its vector.
SavedNames ==
    NumberNames \cup ActiveNames \cup Names(outFunctionName) \cup Names(outLimitName)
        \cup Names(inpFunctionName)

\* What the property of the name holds in c.
ValueNamed(c, name) ==
    IF name = RoofTimeoutNPName THEN c.RoofTimeoutN
    ELSE IF SlotNamed(outFunctionName, name) # 0
    THEN c.outFunctionS[SlotNamed(outFunctionName, name)]
    ELSE IF SlotNamed(outPinName, name) # 0 THEN c.outPinNumberN[SlotNamed(outPinName, name)]
    ELSE IF SlotNamed(outActiveName, name) # 0
    THEN c.outActivateWhenS[SlotNamed(outActiveName, name)]
    ELSE IF SlotNamed(outLimitName, name) # 0
    THEN c.outActiveLimitS[SlotNamed(outLimitName, name)]
    ELSE IF SlotNamed(inpFunctionName, name) # 0
    THEN c.inpFunctionS[SlotNamed(inpFunctionName, name)]
    ELSE IF SlotNamed(inpPinName, name) # 0 THEN c.inpPinNumberN[SlotNamed(inpPinName, name)]
    ELSE c.inpActivateWhenS[SlotNamed(inpActiveName, name)]

\* saveConfigItems(fp): the file it writes.
saveConfigItems(c) == [name \in SavedNames |-> ValueNamed(c, name)]

\* The switches that a saved switch vector holds ON.
SavedOn(name, value) ==
    IF name \in ActiveNames THEN (IF value = "None" THEN {} ELSE {value})
    ELSE IF value = 0 THEN {} ELSE {value}

\* loadConfig(true, property): the vector of that name in the file, if there
\* is one, comes to the driver as a request of the client.
loadConfig(c, file, property) ==
    IF property \notin DOMAIN file THEN c
    ELSE IF property \in NumberNames THEN ISNewNumber(c, property, file[property])
    ELSE ISNewSwitchDefinition(c, property, SavedOn(property, file[property]))

\* ISGetProperties(dev): loadConfig for the name "ROOF_TIMEOUT" and for the
\* name of each definition property; each load changes the property of its
\* name only.
ISGetProperties(c, file) ==
    [outFunctionS |->
         [i \in OutSlots |-> loadConfig(c, file, outFunctionName[i]).outFunctionS[i]],
     outPinNumberN |->
         [i \in OutSlots |-> loadConfig(c, file, outPinName[i]).outPinNumberN[i]],
     outActivateWhenS |->
         [i \in OutSlots |-> loadConfig(c, file, outActiveName[i]).outActivateWhenS[i]],
     outActiveLimitS |->
         [i \in OutSlots |-> loadConfig(c, file, outLimitName[i]).outActiveLimitS[i]],
     inpFunctionS |->
         [i \in InpSlots |-> loadConfig(c, file, inpFunctionName[i]).inpFunctionS[i]],
     inpPinNumberN |->
         [i \in InpSlots |-> loadConfig(c, file, inpPinName[i]).inpPinNumberN[i]],
     inpActivateWhenS |->
         [i \in InpSlots |-> loadConfig(c, file, inpActiveName[i]).inpActivateWhenS[i]],
     RoofTimeoutN |-> loadConfig(c, file, RoofTimeoutNName).RoofTimeoutN]

\* The client edits a definition and the timeout, saves the configuration
\* and asks for the properties; the driver is started again.
InitFresh ==
    /\ InitDriver
    /\ outFunctionS = DefaultCfg.outFunctionS
    /\ outPinNumberN = DefaultCfg.outPinNumberN
    /\ outActivateWhenS = DefaultCfg.outActivateWhenS
    /\ outActiveLimitS = DefaultCfg.outActiveLimitS
    /\ inpFunctionS = DefaultCfg.inpFunctionS
    /\ inpPinNumberN = DefaultCfg.inpPinNumberN
    /\ inpActivateWhenS = DefaultCfg.inpActivateWhenS
    /\ RoofTimeoutN = DefaultCfg.RoofTimeoutN

FreshNewSwitch ==
    NewSwitchOver({[name |-> "OUTRELAY1", on |-> {1}], [name |-> "OUTACT1", on |-> {"High"}],
                   [name |-> "INPSWITCH1", on |-> {1}]})
FreshNewNumber ==
    NewNumberOver({[name |-> "OUTGPIO1", value |-> 12],
                   [name |-> RoofTimeoutNPName, value |-> ROOF_TIMEOUT_MIN + 1]})

SaveAction ==
    /\ running
    /\ saved' = saveConfigItems(Cfg)
    /\ CommitCfg(Cfg)
    /\ Commit(Return(Enter(S, "saveConfigItems", "NONE"), "true"))

GetPropertiesAction ==
    /\ running
    /\ CommitCfg(ISGetProperties(Cfg, saved))
    /\ Commit(Return(Enter(S, "ISGetProperties", "NONE"), "true"))
    /\ UNCHANGED saved

RestartAction ==
    /\ CommitCfg(DefaultCfg)
    /\ \E rt \in UninitValues : Commit(ConstructedDriver(rt))
    /\ UNCHANGED saved

NextFresh ==
    \/ FreshNewSwitch
    \/ FreshNewNumber
    \/ SaveAction
    \/ GetPropertiesAction
    \/ RestartAction

SpecFresh == InitFresh /\ [][NextFresh]_vars

\* C19: when a driver that was just started loads a saved configuration in
\* ISGetProperties, the definitions and the timeout it then holds are the
\* saved ones.
C19_ConfigRoundTrip ==
    [][(op.name = "init" /\ op'.name = "ISGetProperties" /\ DOMAIN saved # {})
       => saveConfigItems(Cfg') = saved]_vars

\* ------------------------------------------------------- the level of a push
\* switchOn of the push the operation made: the lock and the auxiliary relay
\* follow the switch the client set, a move turns its relay on.
TurnOn ==
    IF op.name = "Lock" THEN LockS = "LOCK_ENABLE"
    ELSE IF op.name = "Aux" THEN AuxS = "AUX_ENABLE"
    ELSE TRUE

\* The level that turns the relay of the definition on or off.
CommandedLevel(i, turnOn) ==
    IF outActivateWhenS[i] = "High" THEN (IF turnOn THEN 1 ELSE 0)
    ELSE (IF turnOn THEN 0 ELSE 1)

\* C20: the first write of a push on a definition that is active high or
\* active low writes the level switchOn for active high and its opposite for
\* active low; a push that succeeded on a definition with no active limit
\* interval made that write only, and the pin holds the level.
C20_FirstLevel ==
    (/\ op.actuate # "none" /\ writes # <<>>
     /\ outActivateWhenS[PushedSlot] \in {"High", "Low"})
        => /\ writes[1].gpio = outPinNumberN[PushedSlot]
           /\ writes[1].level = CommandedLevel(PushedSlot, TurnOn)
           /\ (op.ret = "true" /\ IntervalMilli(PushedSlot) = 0)
                 => /\ Len(writes) = 1
                    /\ pinLevel[outPinNumberN[PushedSlot]] = CommandedLevel(PushedSlot, TurnOn)

\* The lock relay, active low and with no limit, turned off: one write of 1.
C20_Witness ==
    /\ op.name = "Lock" /\ op.actuate = ROOF_LOCK_RELAY /\ op.ret = "true"
    /\ LockS = "LOCK_DISABLE"
    /\ outActivateWhenS[PushedSlot] = "Low" /\ IntervalMilli(PushedSlot) = 0
    /\ writes = <<[gpio |-> outPinNumberN[PushedSlot], level |-> 1, err |-> 0]>>

\* ------------------------------------------- the active limit of a move relay
\* The definitions of InitConfig with the active limit of the open relay as
\* the client left it: one of the five intervals, or none selected (0).
InitConfigLimit(outActive, openLimit) ==
    /\ outFunctionS = [i \in OutSlots |-> IF i = 5 THEN 0 ELSE i]
    /\ outPinNumberN = [i \in OutSlots |-> <<5, 6, 13, 19, GPIO_PIN_INITIAL>>[i]]
    /\ outActivateWhenS = [i \in OutSlots |-> IF i = 5 THEN "None" ELSE outActive]
    /\ outActiveLimitS = [i \in OutSlots |-> <<openLimit, 2, 3, 4, 0>>[i]]
    /\ inpFunctionS = [i \in InpSlots |-> IF i = 4 THEN 0 ELSE i]
    /\ inpPinNumberN = [i \in InpSlots |-> <<17, 27, 22, GPIO_PIN_INITIAL>>[i]]
    /\ inpActivateWhenS = [i \in InpSlots |-> <<"High", "High", "Low", "None">>[i]]

InitLimit ==
    /\ InitDriver
    /\ \E outActive \in {"High", "Low"}, openLimit \in 0..MAX_OUT_ACTIVE_LIMIT :
         InitConfigLimit(outActive, openLimit)
    /\ RoofTimeoutN = ROOF_TIMEOUT_MIN

LimitConnect == ConnectOver({0}, GpioSetupOk, {FALSE}, RestReadings)
LimitMove == MoveOver({"DOME_CW", "DOME_CCW"}, {FALSE}, RestReadings, {1}, {0})

NextLimit ==
    \/ LimitConnect
    \/ DisconnectAction
    \/ LimitMove

SpecLimit == InitLimit /\ [][NextLimit]_vars

\* C21: a push of the open, close or abort button on a definition that is
\* active high or active low either returns false with no pin written or
\* is a pulse: two writes, the second after an interval of 100, 250, 500 or
\* 750 ms; after a push that returned true the pin is not at the level that
\* turns the relay on.  Whatever the active limit of the definition,
\* none selected included.
C21_MoveRelayPulsed ==
    (/\ op.actuate \in MoveFunctions /\ OutMapped(op.actuate)
     /\ outActivateWhenS[PushedSlot] \in {"High", "Low"})
        => /\ \/ op.ret = "false" /\ writes = <<>>
              \/ Len(writes) = 2 /\ IntervalMilli(PushedSlot) > 0
           /\ op.ret = "true"
                 => pinLevel[outPinNumberN[PushedSlot]] # CommandedLevel(PushedSlot, TRUE)

\* ------------------------------------------- buttons without a definition
\* The roof with every relay defined but, possibly, one of open, close and
\* lock; the auxiliary relay has no definition.  The client moves the roof
\* and sets the lock and the auxiliary switch.
InitUnused ==
    /\ InitDriver
    /\ \E unused \in {{}, {ROOF_OPEN_RELAY}, {ROOF_CLOSE_RELAY}, {ROOF_LOCK_RELAY}} :
         InitConfig(unused, "High", 4)
    /\ RoofTimeoutN = ROOF_TIMEOUT_MIN

UnusedConnect == ConnectOver({0}, GpioSetupOk, {FALSE}, RestReadings)
UnusedMove == MoveOver({"DOME_CW", "DOME_CCW"}, {FALSE}, RestReadings, {1}, {0})
UnusedLock == LockOver(RestReadings, {1}, {0})
UnusedAux == AuxOver(RestReadings, {1}, {0})

NextUnused ==
    \/ UnusedConnect
    \/ UnusedMove
    \/ UnusedLock
    \/ UnusedAux

SpecUnused == InitUnused /\ [][NextUnused]_vars

\* C22: a push of a button that no output definition selects writes no pin;
\* it returns true for the lock and the auxiliary button and false for the
\* open and the close button.
C22_UnmappedButton ==
    (op.actuate # "none" /\ ~OutMapped(op.actuate))
        => /\ writes = <<>>
           /\ op.actuate \in {ROOF_LOCK_RELAY, ROOF_AUX_RELAY} => op.ret = "true"
           /\ op.actuate \in {ROOF_OPEN_RELAY, ROOF_CLOSE_RELAY} => op.ret = "false"

\* The lock switch set on a roof without a lock relay.
C22_Witness ==
    /\ op.name = "Lock" /\ op.rc = "true"
    /\ op.actuate = ROOF_LOCK_RELAY /\ ~OutMapped(ROOF_LOCK_RELAY)
    /\ op.ret = "true" /\ writes = <<>>

\* ------------------------------------------------------- reading a switch
\* The roof with the opened and the closed switch active high, the lock
\* switch active low and no auxiliary switch; one of the three may be left
\* undefined.  The switches are read one at a time and gpio_read returns a
\* level or an error.
InitRead ==
    /\ InitDriver
    /\ \E unused \in {{}, {ROOF_OPENED_SWITCH}, {ROOF_CLOSED_SWITCH}, {ROOF_LOCKED_SWITCH}} :
         InitConfig(unused, "High", 4)
    /\ RoofTimeoutN = ROOF_TIMEOUT_MIN

ReadConnect == ConnectOver({0}, GpioSetupOk, {FALSE}, RestReadings)
ReadAction ==
    ReadOver({ROOF_OPENED_SWITCH, ROOF_CLOSED_SWITCH, ROOF_LOCKED_SWITCH, ROOF_AUX_SWITCH},
             GpioReadResults)

NextRead ==
    \/ ReadConnect
    \/ DisconnectAction
    \/ ReadAction

SpecRead == InitRead /\ [][NextRead]_vars

\* The level is the one the definition of the switch is active at.
LevelMatches(roofSwitchId, level) ==
    \/ inpActivateWhenS[InpSlotOf(roofSwitchId)] = "High" /\ level = 1
    \/ inpActivateWhenS[InpSlotOf(roofSwitchId)] = "Low" /\ level = 0

\* C23: a read of a switch that has a definition passes back true when the
\* level of the pin is the active one of the definition (1 for active high,
\* 0 for active low) and false otherwise; a read of the opened or the closed
\* switch without a definition fails; a read of the lock or the auxiliary
\* switch without a definition succeeds and passes back false.
C23_SwitchRead ==
    op.name = "readRoofSwitch"
        => IF InpMapped(op.read.id)
           THEN op.ret = "true" <=> LevelMatches(op.read.id, op.read.level)
           ELSE IF op.read.id \in {ROOF_OPENED_SWITCH, ROOF_CLOSED_SWITCH}
           THEN op.rc = "false"
           ELSE op.rc = "true" /\ op.ret = "false"

\* The lock switch, active low, read at level 0: on.
C23_Witness ==
    /\ op.name = "readRoofSwitch" /\ op.read = [id |-> ROOF_LOCKED_SWITCH, level |-> 0]
    /\ InpMapped(ROOF_LOCKED_SWITCH)
    /\ op.rc = "true" /\ op.ret = "true"
    /\ roofLockedSwitch = "ISS_ON"

\* ------------------------------------------------- a failed read of a switch
\* C24: a read of a switch with a definition for which gpio_read returns an
\* error code fails; it is not a successful read of a switch that is off.
C24_ReadErrorFails ==
    (/\ op.name = "readRoofSwitch" /\ InpMapped(op.read.id)
     /\ op.read.level \notin Levels)
        => op.rc = "false"

\* ------------------------------------------------- the lights with the lock on
\* C25: after a status computation that found the lock switch on, the lock
\* light is ALERT, the light of the closed switch, or else of the opened
\* switch, is OK when that switch is on, and when a session was in progress
\* the summary and the moving light are ALERT, whatever the opened and the
\* closed switch read.
C25_LockedStatus ==
    (op.status /\ snap.lockedState) =>
        /\ RoofStatusL["ROOF_STATUS_LOCKED"] = "IPS_ALERT"
        /\ snap.closedState => RoofStatusL["ROOF_STATUS_CLOSED"] = "IPS_OK"
        /\ (~snap.closedState /\ snap.openedState)
              => RoofStatusL["ROOF_STATUS_OPENED"] = "IPS_OK"
        /\ snap.moving => /\ RoofStatusLP = "IPS_ALERT"
                          /\ RoofStatusL["ROOF_STATUS_MOVING"] = "IPS_ALERT"

\* ------------------------------------------- the lights of a session under way
\* C26: after a status computation that found the lock switch off and not
\* exactly one of the opened and closed switches on while a session was in
\* progress, the summary and the moving light are BUSY and so is the light of
\* the limit the session moves to.
C26_SessionShownBusy ==
    (/\ op.status /\ ~snap.lockedState /\ snap.moving
     /\ snap.openedState = snap.closedState)
        => /\ RoofStatusLP = "IPS_BUSY"
           /\ RoofStatusL["ROOF_STATUS_MOVING"] = "IPS_BUSY"
           /\ roofOpening => RoofStatusL["ROOF_STATUS_OPENED"] = "IPS_BUSY"
           /\ roofClosing => RoofStatusL["ROOF_STATUS_CLOSED"] = "IPS_BUSY"
           /\ \/ RoofStatusL["ROOF_STATUS_OPENED"] = "IPS_BUSY"
              \/ RoofStatusL["ROOF_STATUS_CLOSED"] = "IPS_BUSY"

\* ------------------------------------------- the lights of a roof left between
\* No move request has been accepted and no session aborted since the driver
\* was constructed: MotionRequest still holds its initial 0 (Move stores the
\* timeout, which is at least ROOF_TIMEOUT_MIN, and Abort stores -1).
NoSessionYet == MotionRequest = 0

\* C27: after a status computation that found the lock switch off, neither
\* limit switch on and no session in progress, the summary is ALERT, and
\* while no session has been there to time out neither the opened nor the
\* closed light is ALERT.
C27_StationaryBetween ==
    (/\ op.status /\ ~snap.lockedState /\ ~snap.moving
     /\ ~snap.openedState /\ ~snap.closedState)
        => /\ RoofStatusLP = "IPS_ALERT"
           /\ NoSessionYet => /\ RoofStatusL["ROOF_STATUS_OPENED"] # "IPS_ALERT"
                              /\ RoofStatusL["ROOF_STATUS_CLOSED"] # "IPS_ALERT"

\* ------------------------------------------------- a push that fails in a move
\* Move requests whose push can fail: a relay without a definition or a
\* gpio_write that fails.  The client sets the timeout between the requests.
InitFail ==
    /\ InitDriver
    /\ \E unused \in {{}, {ROOF_OPEN_RELAY}} : InitConfig(unused, "High", 4)
    /\ RoofTimeoutN = ROOF_TIMEOUT_MIN

\* The roof at rest or between its limits, not locked.
FailReadings == RestReadings \cup {[opened |-> 0, closed |-> 0, locked |-> 1, aux |-> 0]}

FailConnect == ConnectOver({0}, GpioSetupOk, {FALSE}, RestReadings)
FailMove == MoveOver({"DOME_CW", "DOME_CCW"}, {FALSE}, FailReadings, {1}, GpioCallResults)
FailTimeout ==
    NewNumberOver({[name |-> RoofTimeoutNPName, value |-> v] :
                     v \in {ROOF_TIMEOUT_MIN, ROOF_TIMEOUT_MIN + 1}})

NextFail ==
    \/ FailConnect
    \/ FailMove
    \/ FailTimeout

SpecFail == InitFail /\ [][NextFail]_vars

\* C28: a move request that came to push the open or the close button starts
\* a session only when the push succeeded.  After a failed push it returns
\* IPS_ALERT, no in-progress flag is set and the requested timeout, the start
\* time, the recorded timeout and the timers are as before the request; after
\* a successful one it returns IPS_BUSY, the flag of its direction and only
\* that flag is set and the requested timeout is the configured timeout.
C28_SessionAfterActuation ==
    [][(op'.name = "Move" /\ op'.actuate \in {ROOF_OPEN_RELAY, ROOF_CLOSE_RELAY})
       => IF op'.ret = "true"
          THEN /\ op'.rc = "IPS_BUSY"
               /\ roofOpening' = (op'.dir = "DOME_CW")
               /\ roofClosing' = (op'.dir = "DOME_CCW")
               /\ MotionRequest' = RoofTimeoutN
               /\ MotionStart' = 0
               /\ roofTimedOut' = EXPIRED_CLEAR
          ELSE /\ op'.rc = "IPS_ALERT"
               /\ ~roofOpening' /\ ~roofClosing'
               /\ MotionRequest' = MotionRequest /\ MotionStart' = MotionStart
               /\ roofTimedOut' = roofTimedOut /\ timers' = timers]_vars

\* An open request whose relay was switched on but not off again: the second
\* gpio_write failed, after an earlier session with another timeout.
C28_Witness ==
    /\ op.name = "Move" /\ op.dir = "DOME_CW" /\ op.actuate = ROOF_OPEN_RELAY
    /\ op.ret = "false" /\ op.rc = "IPS_ALERT"
    /\ Len(writes) = 2 /\ writes[2].err # 0
    /\ ~roofOpening /\ ~roofClosing
    /\ MotionRequest > 0 /\ MotionRequest # RoofTimeoutN

\* ------------------------------------------------- the Lock and Aux switches
\* The client sets the Lock and the Aux switch of a roof with a lock switch,
\* at rest and during a session; the lock relay has a definition or not.
InitToggle ==
    /\ InitDriver
    /\ \E unused \in {{}, {ROOF_LOCK_RELAY}} : InitConfig(unused, "High", 4)
    /\ RoofTimeoutN = ROOF_TIMEOUT_MIN

\* The roof at one of its limits, locked (the lock switch is active low) or not.
ToggleReadings ==
    RestReadings \cup {[opened |-> 0, closed |-> 1, locked |-> 0, aux |-> 0],
                       [opened |-> 1, closed |-> 0, locked |-> 0, aux |-> 0]}

ToggleConnect == ConnectOver({0}, GpioSetupOk, {FALSE}, RestReadings)
ToggleMove == MoveOver({"DOME_CW", "DOME_CCW"}, {FALSE}, RestReadings, {1}, {0})
ToggleLock == LockOver(ToggleReadings, Levels, {0})
ToggleAux == AuxOver(RestReadings, Levels, {0})

NextToggle ==
    \/ ToggleConnect
    \/ ToggleMove
    \/ ToggleLock
    \/ ToggleAux

SpecToggle == InitToggle /\ [][NextToggle]_vars

\* The relay of the switch the last request set.
ToggledRelay(name) == IF name = "Lock" THEN ROOF_LOCK_RELAY ELSE ROOF_AUX_RELAY

\* C29: a request that sets the Lock or the Aux switch to a new state pushes
\* the lock or the auxiliary button, and a relay with a definition is written
\* whatever the lock switch reads and whether or not a session is in
\* progress.  The request recomputes the status before it returns, sets no
\* in-progress flag, clears one only where its status computation found the
\* limit switch of the session on, and leaves the requested timeout, the
\* start time, the recorded timeout, the timers and the motion state alone.
C29_ToggleBypasses ==
    [][(op'.name \in {"Lock", "Aux"} /\ op'.rc = "true")
       => /\ op'.actuate = ToggledRelay(op'.name)
          /\ OutMapped(op'.actuate) => op'.ret = "true" /\ writes' # <<>>
          /\ op'.status
          /\ roofOpening' => roofOpening
          /\ roofClosing' => roofClosing
          /\ (roofOpening /\ ~roofOpening')
                => snap'.openedState /\ ~snap'.closedState /\ ~snap'.lockedState
          /\ (roofClosing /\ ~roofClosing')
                => snap'.closedState /\ ~snap'.openedState /\ ~snap'.lockedState
          /\ MotionRequest' = MotionRequest /\ MotionStart' = MotionStart
          /\ roofTimedOut' = roofTimedOut /\ timers' = timers
          /\ DomeMotionSP' = DomeMotionSP /\ DomeMotionS' = DomeMotionS
          /\ m_DomeState' = m_DomeState]_vars

\* The lock relay switched during an opening session with the lock switch on.
C29_Witness ==
    /\ op.name = "Lock" /\ op.rc = "true" /\ op.actuate = ROOF_LOCK_RELAY
    /\ op.lock = "active" /\ op.ret = "true" /\ writes # <<>>
    /\ snap.lockedState /\ snap.moving /\ roofOpening

\* ------------------------------------------------- every request of the roof
\* Move, park, unpark and abort requests arrive in any order while the poll
\* timers fire and the client disconnects and connects again.
\* A move request and a poll find the roof at one of its limits or between
\* them, the other requests find it at a limit.
AllReadings == RestReadings \cup {[opened |-> 0, closed |-> 0, locked |-> 1, aux |-> 0]}

AllConnect == ConnectOver({0}, GpioSetupOk, {FALSE}, RestReadings)
AllTimerHit == TimerHitOver(AllReadings)
AllMove == MoveOver({"DOME_CW", "DOME_CCW"}, {FALSE}, AllReadings, {1}, {0})
AllPark == ParkOver({FALSE}, RestReadings, {1}, {0})
AllUnPark == UnParkOver({FALSE}, RestReadings, {1}, {0})
AllAbort == AbortOver(RestReadings, {1}, {0})

NextAll ==
    \/ AllConnect
    \/ DisconnectAction
    \/ AllTimerHit
    \/ AdvanceAction
    \/ AllMove
    \/ AllPark
    \/ AllUnPark
    \/ AllAbort

SpecAll == InitLock /\ [][NextAll]_vars

\* C30: the roof is never marked as opening and as closing at once.
C30_OneDirection == ~(roofOpening /\ roofClosing)

\* An unpark request received during a closing session.
C30_Witness ==
    /\ op.name = "UnPark" /\ snap.moving /\ roofClosing /\ ~roofOpening

\* ------------------------------------------------- the pending poll timers
\* C31: while the driver is connected at most one poll timer is pending.
C31_OnePollTimer == isConnected => Len(timers) <= 1

\* ------------------------------------------------- the lights taken together
\* C32: after a status computation the opened and the closed light are not
\* both OK, the moving light is BUSY or ALERT only when a session was in
\* progress and neither limit switch was read on, and the lock light is ALERT
\* exactly when the lock switch was read on.
C32_LightsConsistent ==
    op.status =>
        /\ ~(/\ RoofStatusL["ROOF_STATUS_OPENED"] = "IPS_OK"
             /\ RoofStatusL["ROOF_STATUS_CLOSED"] = "IPS_OK")
        /\ RoofStatusL["ROOF_STATUS_MOVING"] # "IPS_IDLE"
              => /\ RoofStatusL["ROOF_STATUS_MOVING"] \in {"IPS_BUSY", "IPS_ALERT"}
                 /\ snap.moving /\ ~snap.openedState /\ ~snap.closedState
        /\ RoofStatusL["ROOF_STATUS_LOCKED"] = "IPS_ALERT" <=> snap.lockedState

\* A session under way with the lock switch on and both limit switches on.
C32_Witness ==
    /\ op.status /\ snap.lockedState /\ snap.moving
    /\ snap.openedState /\ snap.closedState
    /\ RoofStatusL["ROOF_STATUS_MOVING"] = "IPS_IDLE"
    /\ RoofStatusL["ROOF_STATUS_CLOSED"] = "IPS_OK"

\* ------------------------------------------------- an abort with nothing to stop
\* Abort requests of a roof whose Lock switch the client sets: a session can
\* have been completed by the status computation of a toggle.
StopConnect == ConnectOver({0}, GpioSetupOk, {FALSE}, RestReadings)
StopMove == MoveOver({"DOME_CW", "DOME_CCW"}, {FALSE}, RestReadings, {1}, {0})
StopLock == LockOver(RestReadings, {1}, {0})
StopAbort == AbortOver(ToggleReadings, {1}, {0})

NextStop ==
    \/ StopConnect
    \/ StopMove
    \/ StopLock
    \/ StopAbort

SpecStop == InitLock /\ [][NextStop]_vars

\* C33: an abort request received while no session is in progress, or that
\* reads the lock switch on, pushes no button, writes no pin and leaves the
\* in-progress flags, the requested timeout and the recorded timeout as they
\* were.
C33_AbortWithoutEffect ==
    [][(/\ op'.name = "Abort"
        /\ (~roofOpening /\ ~roofClosing) \/ snap'.lockedState)
       => (/\ NoActuation
           /\ roofOpening' = roofOpening /\ roofClosing' = roofClosing
           /\ MotionRequest' = MotionRequest
           /\ roofTimedOut' = roofTimedOut)]_vars

\* ------------------------------------------------- the flag of a completed session
\* C34: a poll tick of an opening session that reads the opened switch on, and
\* so completes the session as unparked, leaves roofOpening false; likewise a
\* tick of a closing session that reads the closed switch on leaves
\* roofClosing false, whatever the other switches read.
C34_CompletedSessionCleared ==
    [][/\ (SessionTick("DOME_CW") /\ snap'.openedState) => ~roofOpening'
       /\ (SessionTick("DOME_CCW") /\ snap'.closedState) => ~roofClosing']_vars

\* ------------------------------------------------- the stored switch states
\* C35: after a move request, an abort request or a poll tick that computed
\* the status, the stored states of the opened and the closed switch are the
\* states that status computation used, and so is the stored state of the
\* lock switch when the operation pushed no button (a push reads the lock
\* switch again).
C35_StoredAsRead ==
    (op.name \in {"Move", "Abort", "TimerHit"} /\ op.status)
        => /\ fullyOpenedLimitSwitch = ISState(snap.openedState)
           /\ fullyClosedLimitSwitch = ISState(snap.closedState)
           /\ op.actuate = "none" => roofLockedSwitch = ISState(snap.lockedState)

\* ------------------------------------------------- the modes of the pins
\* The client edits a pin number, a function and a polarity of the
\* definitions of a roof that is connected, and asks for moves.
RepinConnect == ConnectOver({0}, GpioSetupOk, {FALSE}, RestReadings)
RepinNewNumber ==
    NewNumberOver({[name |-> "OUTGPIO1", value |-> 12], [name |-> "INPGPIO1", value |-> 23]})
RepinNewSwitch ==
    NewSwitchOver({[name |-> "OUTRELAY5", on |-> {3}], [name |-> "OUTACT2", on |-> {"Low"}]})
RepinMove == MoveOver({"DOME_CW", "DOME_CCW"}, {FALSE}, RestReadings, {1}, {0})

NextRepin ==
    \/ RepinConnect
    \/ DisconnectAction
    \/ RepinNewNumber
    \/ RepinNewSwitch
    \/ RepinMove

SpecRepin == InitLock /\ [][NextRepin]_vars

\* C36: every pin the last operation wrote is in output mode, and after an
\* operation of the connected driver that computed the status the pin of
\* every switch that has a definition is in input mode, under the
\* definitions the operation ran with.
C36_PinsPrepared ==
    /\ \A k \in DOMAIN writes : pinMode[writes[k].gpio] = "PI_OUTPUT"
    /\ (isConnected /\ op.status)
          => \A id \in {ROOF_OPENED_SWITCH, ROOF_CLOSED_SWITCH, ROOF_LOCKED_SWITCH,
                        ROOF_AUX_SWITCH} :
                InpMapped(id) => pinMode[inpPinNumberN[InpSlotOf(id)]] = "PI_INPUT"

\* ------------------------------------------------- a session ended by an abort
\* C37: an abort request that pushed the abort button leaves the requested
\* timeout negative and the recorded timeout clear; while the requested
\* timeout is negative, that is until a later move request is accepted, the
\* recorded timeout stays clear whatever time passes, and a poll tick that
\* finds the state machine moving or idle leaves it idle.
C37_AbortIsNoTimeout ==
    [][/\ (op'.name = "Abort" /\ op'.actuate = ROOF_ABORT_RELAY)
             => MotionRequest' < 0 /\ ~roofOpening' /\ ~roofClosing'
       /\ MotionRequest' < 0 => roofTimedOut' = EXPIRED_CLEAR
       /\ (/\ MotionRequest < 0
           /\ op'.name = "TimerHit" /\ op'.rc = "rearmed"
           /\ m_DomeState \in {"DOME_IDLE", "DOME_MOVING"})
             => m_DomeState' = "DOME_IDLE"]_vars

\* A poll tick after the abort of a session finds the roof between its
\* limits: the time left of the aborted session is negative.
C37_Witness ==
    /\ op.name = "TimerHit" /\ op.rc = "rearmed"
    /\ MotionRequest < 0
    /\ ~snap.openedState /\ ~snap.closedState
    /\ m_DomeState = "DOME_IDLE"
    /\ roofTimedOut = EXPIRED_CLEAR

\* ------------------------------------------------- the indices of ISNewNumber
\* The client sets number properties of the device: pin numbers of the
\* definitions, the timeout and the polling period of INDI::DefaultDevice.
IndexNewNumber ==
    NewNumberOver({[name |-> n, value |-> v] :
                      n \in {"OUTGPIO5", "INPGPIO4", RoofTimeoutNPName, "POLLING_PERIOD"},
                      v \in {12, GPIO_PIN_MAX + 1}})
IndexNewSwitch == NewSwitchOver({[name |-> "OUTRELAY5", on |-> {5}]})
IndexConnect == ConnectOver({0}, GpioSetupOk, {FALSE}, RestReadings)

NextIndex ==
    \/ IndexNewNumber
    \/ IndexNewSwitch
    \/ IndexConnect
    \/ DisconnectAction

SpecIndex == InitLock /\ [][NextIndex]_vars

\* C38: every index the last operation used on the pin number array of the
\* output definitions is one of its MAX_OUT_DEFS elements, and every index
\* it used on the array of the input definitions one of its MAX_INP_DEFS
\* elements.
C38_IndicesInRange ==
    /\ \A i \in op.index.out : i \in 0..(MAX_OUT_DEFS - 1)
    /\ \A i \in op.index.inp : i \in 0..(MAX_INP_DEFS - 1)

====
